---------------------------- MODULE Spec2Model ----------------------------
(***************************************************************************)
(* Model of the rag-tcc repository:                                        *)
(*   src/gera_qa_async.py  - asynchronous question generation pipeline     *)
(*   src/gerar_csv.py      - normalisation and deduplication of contracts  *)
(*   src/perguntas_para_chroma.py - indexing adapter                       *)
(* Text is modelled as sequences of characters, so that string formatting, *)
(* slugging and parsing are computed, not assumed.                         *)
(***************************************************************************)
EXTENDS Integers, Sequences, FiniteSets, TLC

(***************************************************************************)
(* Bounds of the model.                                                    *)
(***************************************************************************)
MaxRows    == 2      \* rows of the input CSV of the generation pipeline
MaxWorkers == 2      \* --concurrency
MaxK       == 2      \* --n-paraphrases
MaxRuns    == 2      \* consecutive runs of gera_qa_async.py on the same CSV
MaxText    == 4      \* characters of a completion drawn from TextChars
MaxLines   == 3      \* lines of a completion drawn from TextLines
MaxValLen  == 4      \* characters of a valor drawn from ValorChars
MaxZeros   == 309    \* zeros of the longest valor drawn, 10^309: no double is that large
MaxEntries == 3      \* entries of the pickled dataset
MaxLogLines == 3     \* lines of a log drawn from LogLines
MaxRecords == 3      \* records of the file the indexing adapter reads

(***************************************************************************)
(* Program constants.                                                      *)
(***************************************************************************)
RETRIES   == 3
OBJ_LIMIT == 350
SlugLen   == 60
BackoffBase == 3

(***************************************************************************)
(* Characters and the str methods the code uses.                           *)
(***************************************************************************)
\* A character is a string: an ASCII character stands for itself ("\t", "\n",
\* "\r" and "\f" are written with their escapes), any other character is
\* written "U+" and its code point in hexadecimal ("U+00E7" is c with
\* cedilla). The alphabet of the model is ASCII, the Latin-1 supplement,
\* U+0130 and U+0307, the white space of Unicode, the Arabic-Indic digits and
\* the lone surrogates U+D800 and U+DFFF; the classes below are those of
\* Python 3 str and re (no re.ASCII flag) on that alphabet.
AsciiDigits == <<"0", "1", "2", "3", "4", "5", "6", "7", "8", "9">>
ArabicIndicDigits == <<"U+0660", "U+0661", "U+0662", "U+0663", "U+0664",
                       "U+0665", "U+0666", "U+0667", "U+0668", "U+0669">>

\* the decimal digits, by value: \d, and the digits float() reads
DigitSeq == AsciiDigits \o ArabicIndicDigits
Digits == {DigitSeq[i] : i \in DOMAIN DigitSeq}

\* letters with a lower-case form of one character: A-Z, U+00C0-U+00DE
UpperChars == <<"A", "B", "C", "D", "E", "F", "G", "H", "I", "J", "K", "L", "M",
                "N", "O", "P", "Q", "R", "S", "T", "U", "V", "W", "X", "Y", "Z",
                "U+00C0", "U+00C1", "U+00C2", "U+00C3", "U+00C4", "U+00C5",
                "U+00C6", "U+00C7", "U+00C8", "U+00C9", "U+00CA", "U+00CB",
                "U+00CC", "U+00CD", "U+00CE", "U+00CF", "U+00D0", "U+00D1",
                "U+00D2", "U+00D3", "U+00D4", "U+00D5", "U+00D6", "U+00D8",
                "U+00D9", "U+00DA", "U+00DB", "U+00DC", "U+00DD", "U+00DE">>
LowerChars == <<"a", "b", "c", "d", "e", "f", "g", "h", "i", "j", "k", "l", "m",
                "n", "o", "p", "q", "r", "s", "t", "u", "v", "w", "x", "y", "z",
                "U+00E0", "U+00E1", "U+00E2", "U+00E3", "U+00E4", "U+00E5",
                "U+00E6", "U+00E7", "U+00E8", "U+00E9", "U+00EA", "U+00EB",
                "U+00EC", "U+00ED", "U+00EE", "U+00EF", "U+00F0", "U+00F1",
                "U+00F2", "U+00F3", "U+00F4", "U+00F5", "U+00F6", "U+00F8",
                "U+00F9", "U+00FA", "U+00FB", "U+00FC", "U+00FD", "U+00FE">>

\* the other alphanumeric characters (letters without case pair in the
\* alphabet, superscript digits, fractions, capital I with dot above)
OtherAlnum == {"U+00AA", "U+00B2", "U+00B3", "U+00B5", "U+00B9", "U+00BA",
               "U+00BC", "U+00BD", "U+00BE", "U+00DF", "U+00FF", "U+0130"}

\* the line boundaries of str.splitlines() ("\r\n" counts as one)
LineBreaks == {"\n", "\r", "\f", "U+000B", "U+001C", "U+001D", "U+001E",
               "U+0085", "U+2028", "U+2029"}

\* str.isspace(): what str.strip() removes and \s matches
Spaces == {" ", "\t", "\n", "\r", "\f", "U+000B", "U+001C", "U+001D",
           "U+001E", "U+001F", "U+0085", "U+00A0", "U+1680", "U+2000",
           "U+2001", "U+2002", "U+2003", "U+2004", "U+2005", "U+2006",
           "U+2007", "U+2008", "U+2009", "U+200A", "U+2028", "U+2029",
           "U+202F", "U+205F", "U+3000"}

\* lone surrogates: what the utf-8 codec cannot encode
Surrogates == {"U+D800", "U+DFFF"}

Range(s) == {s[i] : i \in DOMAIN s}

Min(a, b) == IF a < b THEN a ELSE b

\* \w of the re module on a str pattern: alphanumeric or the underscore
WordChars == Digits \cup {"_"} \cup Range(UpperChars) \cup Range(LowerChars) \cup OtherAlnum

IsWord(c) == c \in WordChars

\* str.lower() on one character: a string (capital I with dot above gives
\* two characters, i and the combining dot above)
LowerChar(c) ==
    IF c \in Range(UpperChars)
    THEN <<LowerChars[CHOOSE i \in DOMAIN UpperChars : UpperChars[i] = c]>>
    ELSE IF c = "U+0130" THEN <<"i", "U+0307">>
    ELSE <<c>>

\* str.lower()
RECURSIVE Lower(_)
Lower(s) == IF s = <<>> THEN <<>> ELSE LowerChar(Head(s)) \o Lower(Tail(s))

\* s[:n] for n >= 0
Prefix(s, n) == SubSeq(s, 1, Min(n, Len(s)))

\* s[n:] for n >= 0 (drops the first n characters)
Suffix(s, n) == SubSeq(s, n + 1, Len(s))

\* Python's s[:k] for any integer k (a negative k counts from the end)
PySliceTo(s, k) ==
    IF k >= 0 THEN Prefix(s, k)
    ELSE IF Len(s) + k > 0 THEN SubSeq(s, 1, Len(s) + k) ELSE <<>>

\* index of the first character of s that is in set cs, 0 when there is none
FirstIn(s, cs) ==
    IF \E i \in DOMAIN s : s[i] \in cs
    THEN CHOOSE i \in DOMAIN s : s[i] \in cs /\ \A j \in 1..(i - 1) : s[j] \notin cs
    ELSE 0

\* index of the first character of s that is not in set cs, 0 when there is none
FirstNotIn(s, cs) ==
    IF \E i \in DOMAIN s : s[i] \notin cs
    THEN CHOOSE i \in DOMAIN s : s[i] \notin cs /\ \A j \in 1..(i - 1) : s[j] \in cs
    ELSE 0

\* index of the last character of s that is not in set cs, 0 when there is none
LastNotIn(s, cs) ==
    IF \E i \in DOMAIN s : s[i] \notin cs
    THEN CHOOSE i \in DOMAIN s : s[i] \notin cs /\ \A j \in (i + 1)..Len(s) : s[j] \in cs
    ELSE 0

\* s.strip(cs): leading and trailing characters of cs removed
StripChars(s, cs) ==
    IF FirstNotIn(s, cs) = 0 THEN <<>>
    ELSE SubSeq(s, FirstNotIn(s, cs), LastNotIn(s, cs))

\* s.strip()
Strip(s) == StripChars(s, Spaces)

\* s.splitlines(): "\r" followed by "\n" is one line boundary
RECURSIVE SplitLines(_)
SplitLines(s) ==
    IF s = <<>> THEN <<>>
    ELSE LET i == FirstIn(s, LineBreaks)
             n == IF i # 0 /\ i < Len(s) /\ s[i] = "\r" /\ s[i + 1] = "\n" THEN i + 1 ELSE i
         IN  IF i = 0 THEN <<s>>
             ELSE <<SubSeq(s, 1, i - 1)>> \o SplitLines(Suffix(s, n))

\* str(n) for n >= 0
RECURSIVE IntToStr(_)
IntToStr(n) ==
    LET d == AsciiDigits[(n % 10) + 1]
    IN  IF n < 10 THEN <<d>> ELSE IntToStr(n \div 10) \o <<d>>

\* f"{n:02d}" for n >= 0
Fmt02d(n) == IF n < 10 THEN <<"0">> \o IntToStr(n) ELSE IntToStr(n)

(***************************************************************************)
(* gera_qa_async.py: slug, identifiers, extract_questions                  *)
(***************************************************************************)
\* re.sub(r"\W+", "_", txt): every maximal run of non-word characters
\* becomes one underscore
RECURSIVE SubNonWord(_)
SubNonWord(s) ==
    IF s = <<>> THEN <<>>
    ELSE IF IsWord(Head(s)) THEN <<Head(s)>> \o SubNonWord(Tail(s))
    ELSE LET i == FirstIn(s, {c \in Range(s) : IsWord(c)})
         IN  IF i = 0 THEN <<"_">> ELSE <<"_">> \o SubNonWord(Suffix(s, i - 1))

slug(txt, n) == Prefix(StripChars(SubNonWord(Lower(txt)), {"_"}), n)

\* f"{uid_base}_v0", the marker the worker tests and adds
Marker(uid_base) == uid_base \o <<"_", "v", "0">>

\* f"{uid_base}_{versao:02d}_v{i}", the id of a written QAPair
Uid(uid_base, versao, i) ==
    uid_base \o <<"_">> \o Fmt02d(versao) \o <<"_", "v">> \o IntToStr(i)

\* re.match(r"^P\d+\s*:", l, re.I)
MatchesP(l) ==
    /\ Len(l) >= 3
    /\ l[1] \in {"P", "p"}
    /\ l[2] \in Digits
    /\ LET rest == Suffix(l, 1)
           a    == FirstNotIn(rest, Digits)
       IN  /\ a # 0
           /\ LET b == FirstNotIn(Suffix(rest, a - 1), Spaces)
              IN  b # 0 /\ Suffix(rest, a - 1)[b] = ":"

\* l.split(":", 1)[1] for a line that holds a colon
AfterColon(l) == Suffix(l, FirstIn(l, {":"}))

NonBlank(l) == Strip(l) # <<>>

\* lines = [l.strip() for l in text.splitlines() if l.strip()]
StrippedLines(text) ==
    LET ls == SelectSeq(SplitLines(text), NonBlank)
    IN  [i \in DOMAIN ls |-> Strip(ls[i])]

\* qs = [l.split(":",1)[1].strip() for l in lines if re.match(...)]
AllQuestions(text) ==
    LET ms == SelectSeq(StrippedLines(text), MatchesP)
    IN  [i \in DOMAIN ms |-> Strip(AfterColon(ms[i]))]

\* mutant of extract_questions: return qs, without the [:k]
extract_questions_uncut(text, k) ==
    IF AllQuestions(text) = <<>>
    THEN [err |-> "ValueError", qs |-> <<>>]
    ELSE [err |-> "", qs |-> AllQuestions(text)]

\* extract_questions(text, k): err = "ValueError" models the raise
extract_questions(text, k) ==
    IF AllQuestions(text) = <<>>
    THEN [err |-> "ValueError", qs |-> <<>>]
    ELSE [err |-> "", qs |-> PySliceTo(AllQuestions(text), k)]

(***************************************************************************)
(* gera_qa_async.py: the generation pipeline.                              *)
(* One action is one run of a coroutine between two suspension points of   *)
(* the event loop (await queue.join(), an empty queue.get(), client.post,  *)
(* asyncio.sleep).                                                         *)
(***************************************************************************)
VARIABLES
    csv_in,      \* rows of the input CSV (fixed over the runs)
    conc,        \* --concurrency
    n_para,      \* --n-paraphrases
    run,         \* number of the current run of the script
    exists,      \* os.path.exists(OUTFILE)
    file,        \* what qa_pairs.jsonl holds: lines, and fragments of a line
    backups,     \* contents of the qa_pairs.jsonl.bak-<ts> copies, oldest first
    done_ids,    \* the set prepare_output returns and the workers share
    queue,       \* asyncio.Queue: the items not yet taken
    unfinished,  \* asyncio.Queue._unfinished_tasks
    mpc,         \* where main is: "init", "join", "gather", "done"
    wpc,         \* where each worker is: "new", "get", "post", "sleep", "exit",
                 \* "raised" (its coroutine ended with an exception)
    witem,       \* the item each worker holds
    attempt,     \* call_llm's loop variable of each worker
    timer,       \* the delay of the asyncio.sleep each worker awaits
    hist,        \* history: what happened to each row's task in this run
    startLen,    \* history: Len(file) when this run started
    prevWritten, \* history: rows whose task wrote a line in the previous run
    arg,         \* the argument of the pure function under study
    ret,         \* what the function returned
    phase        \* "call" before the function is applied, then "return", ...

vars == <<csv_in, conc, n_para, run, exists, file, backups, done_ids, queue,
          unfinished, mpc, wpc, witem, attempt, timer, hist, startLen,
          prevWritten, arg, ret, phase>>

\* the variables of the generation pipeline, and those of the pure functions
pipeVars == <<csv_in, conc, n_para, run, exists, file, backups, done_ids, queue,
              unfinished, mpc, wpc, witem, attempt, timer, hist, startLen,
              prevWritten>>
pureVars == <<arg, ret, phase>>

\* ---- the inputs the model draws ----------------------------------------
\* objeto_contrato texts (U+00C7 and U+00C3 are the capital c with cedilla and
\* a with tilde, U+00E7 and U+00E3 the small ones): the slug of ObjA is a,
\* U+00E7, U+00E3, o; the slug of ObjB is that of ObjA and "_00", and
\* its marker is the id of the first question of ObjA, version 0. Two rows
\* of a CSV can hold the same object (contracts that differ in their number).
ObjA  == <<"A", "U+00C7", "U+00C3", "O">>
ObjB  == <<"A", "U+00E7", "U+00E3", "o", " ", "0", "0", "!">>

RowSet == { [objeto_contrato |-> ObjA, valor_contrato |-> "R$ 1,00", versao_idx |-> 0],
            [objeto_contrato |-> ObjB, valor_contrato |-> "R$ 2,50", versao_idx |-> 1] }

SeqsUpTo(S, n) == UNION {[1..m -> S] : m \in 0..n}

\* completions of the model: two P-lines and a closing line, one P-line,
\* no P-line, two P-lines of which the second has a question that holds a
\* lone surrogate (the JSON text "\ud800" of the HTTP response), no P-line
\* and a lone surrogate
Resp2 == <<"P", "1", ":", " ", "q", "\n", "p", "2", " ", ":", "r", "\n",
           "R", "e", "s", "p", "o", "s", "t", "a", ":", " ", "1">>
Resp1 == <<"P", "9", ":", "s">>
Resp0 == <<"x", ":", "y">>
RespS == <<"P", "1", ":", " ", "q", "\n", "P", "2", ":", " ", "U+D800">>
RespX == <<"x", "U+D800">>
ResponseSet == {Resp2, Resp1, Resp0, RespS, RespX}

\* what can make one attempt of call_llm raise
FailKinds == {"status500", "raise_for_status", "transport", "no_response_field"}

\* what an output log is made of: the line of a QAPair, a line that is no
\* JSON, a JSON object without "id", and the beginning of the line of a
\* QAPair, {"id": "<id>", "question": with no end of line, which the write
\* loop leaves when the question cannot be encoded
QALine(id, q, val, obj) ==
    [kind |-> "qa", id |-> id, question |-> q, answer |-> val, objeto |-> obj, valor |-> val]
JunkLine == [kind |-> "junk"]
NoIdLine == [kind |-> "noid"]
Fragment(id) == [kind |-> "partial", id |-> id]

\* the output log found at the first start, when there is one: left by an
\* earlier run on another CSV and damaged since (a line cut short, the first
\* question of slug "a" version 0, an object without "id"); every line of it
\* decodes as UTF-8 (prepare_output on any log: SpecPrepare)
PrevFile == <<JunkLine,
              QALine(Uid(slug(ObjA, SlugLen), 0, 0), <<"q">>, "R$ 1,00", ObjA),
              NoIdLine>>

None == [kind |-> "None"]
NoItem == [kind |-> "none"]

Task(n, row) ==
    [kind     |-> "task",
     n        |-> n,
     uid_base |-> slug(row.objeto_contrato, SlugLen),
     obj      |-> row.objeto_contrato,
     val      |-> row.valor_contrato,
     versao   |-> row.versao_idx]

NoHist == [deq |-> 0, done |-> 0, req |-> 0, outcome |-> "none",
           resp |-> <<>>, from |-> 0, cnt |-> 0]

Workers == 1..conc

\* ---- prepare_output ----------------------------------------------------
\* the ids of the lines json.loads accepts and that have an "id" (for ln in
\* f: what follows a fragment is read as the rest of its line)
LoadedIds(f) ==
    {f[i].id : i \in {j \in DOMAIN f : f[j].kind = "qa" /\ (j = 1 \/ f[j - 1].kind # "partial")}}

\* done_ids as prepare_output returns it
PrepareDoneIds(ex, f) == IF ex THEN LoadedIds(f) ELSE {}

\* the backup copies after prepare_output: shutil.copy(path, bak), where
\* the name bak ends with the local time in seconds: it is a new name
\* (same = 0), or the name of the backup number same, made by a start in
\* the same second, which the copy overwrites
PrepareBackups(ex, f, baks, same) ==
    IF ~ex THEN baks
    ELSE IF same = 0 THEN Append(baks, f)
    ELSE [baks EXCEPT ![same] = f]

\* mutant of PrepareFile: the log opened with "w", which truncates it
PrepareFileTruncate(ex, f) == <<>>

\* the contents of the log after open(path, "a")
PrepareFile(ex, f) == IF ex THEN f ELSE <<>>

\* lines the text-mode reader cannot decode as UTF-8 (a line cut inside a
\* multi-byte character, bytes of another encoding), lines whose JSON value
\* is not an object, lines whose "id" cannot be a member of a set
UndecodableLine == [kind |-> "undecodable"]
NotObjLine == [kind |-> "notobj"]
BadIdLine == [kind |-> "badid"]

\* for ln in f: the decoding of the file succeeds
Decodes(f) == \A i \in DOMAIN f : f[i].kind # "undecodable"

\* prepare_output(path): the exception that leaves it, if any, the set and
\* the handle it returns, the backups and the log after it
prepare_output(ex, f, baks, same) ==
    IF ex /\ ~Decodes(f)
    THEN [raised |-> "UnicodeDecodeError", done_ids |-> {}, handle |-> "none",
          backups |-> baks, file |-> f]
    ELSE [raised |-> "", done_ids |-> PrepareDoneIds(ex, f), handle |-> "append",
          backups |-> PrepareBackups(ex, f, baks, same), file |-> PrepareFile(ex, f)]

\* ---- call_llm -----------------------------------------------------------
\* obj_trim: the object text cut to OBJ_LIMIT characters plus an ellipsis
ObjTrim(obj) == IF Len(obj) > OBJ_LIMIT THEN Prefix(obj, OBJ_LIMIT) \o <<"...">> ELSE obj

\* if attempt == RETRIES: raise
IsLastAttempt(a) == a = RETRIES

\* mutant of Backoff: a constant delay, asyncio.sleep(3)
BackoffConstant(a) == BackoffBase

\* await asyncio.sleep(3 * attempt)
Backoff(a) == BackoffBase * a

\* ---- worker -------------------------------------------------------------
\* if f"{uid_base}_v0" in done_ids (a stop sentinel is never skipped)
Skippable(item, done) == item.kind = "task" /\ Marker(item.uid_base) \in done

\* mutant of WrittenLines: the questions written from the last to the first
WrittenLinesReversed(item, qs) ==
    [i \in DOMAIN qs |->
        QALine(Uid(item.uid_base, item.versao, Len(qs) - i), qs[Len(qs) + 1 - i], item.val, item.obj)]

\* the lines the worker writes for the questions qs of its item
WrittenLines(item, qs) ==
    [i \in DOMAIN qs |-> QALine(Uid(item.uid_base, item.versao, i - 1), qs[i], item.val, item.obj)]

\* the text can be encoded as UTF-8, by writer.write(chunk) for the log and
\* by print for the standard output
Encodable(q) == \A i \in DOMAIN q : q[i] \notin Surrogates

\* for i, q in enumerate(qs): json.dump(...); writer.write("\n"): the
\* exception that leaves the loop, if any, and what was written: json.dump
\* writes the object piece by piece, so that the pieces before a question
\* that cannot be encoded are in the log when writer.write raises (b is the
\* index of the first such question, 0 when there is none)
WriteLoop(item, qs) ==
    LET b == IF \A i \in DOMAIN qs : Encodable(qs[i]) THEN 0
             ELSE CHOOSE i \in DOMAIN qs :
                      ~Encodable(qs[i]) /\ \A j \in 1..(i - 1) : Encodable(qs[j])
    IN  IF b = 0 THEN [raised |-> "", items |-> WrittenLines(item, qs)]
        ELSE [raised |-> "UnicodeEncodeError",
              items  |-> Append(WrittenLines(item, SubSeq(qs, 1, b - 1)),
                                Fragment(Uid(item.uid_base, item.versao, b - 1)))]

\* how many items at the head of q a worker takes and skips before it stops
\* at a stop sentinel, at an item it must process, or at the empty queue
SkipCount(q, done) ==
    IF \A i \in DOMAIN q : Skippable(q[i], done) THEN Len(q)
    ELSE (CHOOSE i \in DOMAIN q :
              ~Skippable(q[i], done) /\ \A j \in 1..(i - 1) : Skippable(q[j], done)) - 1

\* history of the tasks q[1..j], taken and skipped
SkipHist(h, q, j) ==
    [n \in DOMAIN h |->
        IF \E i \in 1..j : q[i].n = n
        THEN [h[n] EXCEPT !.deq = @ + 1, !.done = @ + 1, !.outcome = "skipped"]
        ELSE h[n]]

\* worker w runs its while loop on queue q with done set done until it has
\* to wait: in queue.get() on an empty queue, in client.post for a task, or
\* it leaves the loop on a stop sentinel
WorkerLoop(w, q, unf, done, h) ==
    LET j  == SkipCount(q, done)
        h1 == SkipHist(h, q, j)
    IN  IF j = Len(q)
        THEN /\ queue' = <<>>
             /\ unfinished' = unf - j
             /\ wpc' = [wpc EXCEPT ![w] = "get"]
             /\ witem' = [witem EXCEPT ![w] = NoItem]
             /\ attempt' = [attempt EXCEPT ![w] = 0]
             /\ hist' = h1
        ELSE IF q[j + 1] = None
        THEN /\ queue' = Suffix(q, j + 1)
             /\ unfinished' = unf - j - 1
             /\ wpc' = [wpc EXCEPT ![w] = "exit"]
             /\ witem' = [witem EXCEPT ![w] = None]
             /\ attempt' = [attempt EXCEPT ![w] = 0]
             /\ hist' = h1
        ELSE /\ queue' = Suffix(q, j + 1)
             /\ unfinished' = unf - j
             /\ wpc' = [wpc EXCEPT ![w] = "post"]
             /\ witem' = [witem EXCEPT ![w] = q[j + 1]]
             /\ attempt' = [attempt EXCEPT ![w] = 1]
             /\ hist' = [h1 EXCEPT ![q[j + 1].n].deq = @ + 1, ![q[j + 1].n].req = @ + 1]

\* mutant of FinishTask: the except branch writes a record of the failed
\* task to the log
FinishTaskDeadLetter(w, outcome, resp, lines) ==
    LET item == witem[w]
        out  == IF outcome = "written" THEN lines
                ELSE Append(lines, QALine(Uid(item.uid_base, item.versao, 0), <<>>,
                                          item.val, item.obj))
        h    == [hist EXCEPT ![item.n].done = @ + 1,
                             ![item.n].outcome = outcome,
                             ![item.n].resp = resp,
                             ![item.n].from = Len(file) + 1,
                             ![item.n].cnt = Len(lines)]
    IN  /\ file' = file \o out
        /\ done_ids' = done_ids \cup {Marker(item.uid_base)}
        /\ WorkerLoop(w, queue, unfinished - 1, done_ids \cup {Marker(item.uid_base)}, h)

\* done_ids.add(marker); queue.task_done(); then the loop goes on
FinishTask(w, outcome, resp, lines) ==
    LET item == witem[w]
        h    == [hist EXCEPT ![item.n].done = @ + 1,
                             ![item.n].outcome = outcome,
                             ![item.n].resp = resp,
                             ![item.n].from = Len(file) + 1,
                             ![item.n].cnt = Len(lines)]
    IN  /\ file' = file \o lines
        /\ done_ids' = done_ids \cup {Marker(item.uid_base)}
        /\ WorkerLoop(w, queue, unfinished - 1, done_ids \cup {Marker(item.uid_base)}, h)

\* the print of the except branch raises: the exception leaves worker(), the
\* coroutine ends with the marker not added and task_done not called
WorkerRaise(w, resp) ==
    /\ wpc' = [wpc EXCEPT ![w] = "raised"]
    /\ hist' = [hist EXCEPT ![witem[w].n].outcome = "raised", ![witem[w].n].resp = resp]
    /\ UNCHANGED <<file, done_ids, queue, unfinished, witem, attempt>>

\* The worker tasks that main creates are all ready when main suspends in
\* queue.join(), and the event loop runs every ready task before it serves a
\* socket or a timer: a response of the server and the end of an
\* asyncio.sleep reach a worker only after every worker has started.
AllStarted == \A v \in Workers : wpc[v] # "new"

\* ---- main ---------------------------------------------------------------
\* main up to its first suspension: prepare_output, the queue filled from the
\* CSV, the workers created, await queue.join() (which does not suspend when
\* the CSV has no row: the stop sentinels are then put at once)
MainStart ==
    /\ mpc = "init"
    /\ done_ids' = PrepareDoneIds(exists, file)
    /\ \E same \in 0..Len(backups) : backups' = PrepareBackups(exists, file, backups, same)
    /\ file' = PrepareFile(exists, file)
    /\ exists' = TRUE
    /\ startLen' = Len(PrepareFile(exists, file))
    /\ hist' = [n \in DOMAIN csv_in |-> NoHist]
    /\ wpc' = [w \in Workers |-> "new"]
    /\ witem' = [w \in Workers |-> NoItem]
    /\ attempt' = [w \in Workers |-> 0]
    /\ timer' = [w \in Workers |-> 0]
    /\ IF Len(csv_in) = 0
       THEN /\ queue' = [w \in Workers |-> None]
            /\ unfinished' = conc
            /\ mpc' = "gather"
       ELSE /\ queue' = [n \in DOMAIN csv_in |-> Task(n, csv_in[n])]
            /\ unfinished' = Len(csv_in)
            /\ mpc' = "join"
    /\ UNCHANGED <<pureVars, csv_in, conc, n_para, run, prevWritten>>

\* queue.join() returns; one stop sentinel per worker; await gather
MainJoined ==
    /\ mpc = "join"
    /\ unfinished = 0
    /\ queue' = queue \o [w \in Workers |-> None]
    /\ unfinished' = unfinished + conc
    /\ mpc' = "gather"
    /\ UNCHANGED <<pureVars, csv_in, conc, n_para, run, exists, file, backups, done_ids,
                   wpc, witem, attempt, timer, hist, startLen, prevWritten>>

\* gather returns; out.close()
MainDone ==
    /\ mpc = "gather"
    /\ \A w \in Workers : wpc[w] = "exit"
    /\ mpc' = "done"
    /\ UNCHANGED <<pureVars, csv_in, conc, n_para, run, exists, file, backups, done_ids,
                   queue, unfinished, wpc, witem, attempt, timer, hist, startLen,
                   prevWritten>>

\* the script is started again on the same CSV, the log left in place: a new
\* process, which keeps nothing of the memory of the one before
Rerun ==
    /\ mpc = "done"
    /\ run < MaxRuns
    /\ run' = run + 1
    /\ mpc' = "init"
    /\ prevWritten' = {n \in DOMAIN hist : hist[n].cnt > 0}
    /\ done_ids' = {}
    /\ queue' = <<>>
    /\ unfinished' = 0
    /\ wpc' = [w \in Workers |-> "none"]
    /\ witem' = [w \in Workers |-> NoItem]
    /\ attempt' = [w \in Workers |-> 0]
    /\ timer' = [w \in Workers |-> 0]
    /\ hist' = [n \in DOMAIN csv_in |-> NoHist]
    /\ UNCHANGED <<pureVars, csv_in, conc, n_para, exists, file, backups, startLen>>

\* ---- the steps of a worker ----------------------------------------------
\* a worker task starts (in creation order, once main is suspended)
WorkerStart(w) ==
    /\ mpc \in {"join", "gather"}
    /\ wpc[w] = "new"
    /\ \A v \in Workers : v < w => wpc[v] # "new"
    /\ WorkerLoop(w, queue, unfinished, done_ids, hist)
    /\ UNCHANGED <<pureVars, csv_in, conc, n_para, run, exists, file, backups, done_ids,
                   mpc, timer, startLen, prevWritten>>

\* a worker suspended in queue.get() is woken by an item
WorkerWake(w) ==
    /\ wpc[w] = "get"
    /\ queue # <<>>
    /\ WorkerLoop(w, queue, unfinished, done_ids, hist)
    /\ UNCHANGED <<pureVars, csv_in, conc, n_para, run, exists, file, backups, done_ids,
                   mpc, timer, startLen, prevWritten>>

\* client.post returns a completion: extract_questions, the write loop
\* (which an exception can leave part-way), the except branch (whose print
\* shows the text of the ValueError, the completion, and raises when the
\* standard output cannot encode it), the marker added, task_done
PostOk(w, resp) ==
    /\ wpc[w] = "post"
    /\ AllStarted
    /\ LET r   == extract_questions(resp, n_para)
           out == WriteLoop(witem[w], r.qs)
       IN  IF r.err # "" /\ ~Encodable(resp)
           THEN WorkerRaise(w, resp)
           ELSE IF r.err # ""
           THEN FinishTask(w, "failed_parse", resp, <<>>)
           ELSE IF out.raised # ""
           THEN FinishTask(w, "failed_write", resp, out.items)
           ELSE FinishTask(w, "written", resp, out.items)
    /\ UNCHANGED <<pureVars, csv_in, conc, n_para, run, exists, backups, mpc, timer,
                   startLen, prevWritten>>

\* an attempt of call_llm raises: sleep and try again, or, on the last
\* attempt, raise to the worker, which logs, adds the marker and goes on.
\* A failure read from a response needs the response; client.post itself can
\* raise without suspending (a URL httpx rejects), in the very step in which
\* the worker sent the request, while later workers have not started.
PostFail(w, kind) ==
    /\ wpc[w] = "post"
    /\ kind = "transport" \/ AllStarted
    /\ IF IsLastAttempt(attempt[w])
       THEN /\ FinishTask(w, "failed_llm", <<>>, <<>>)
            /\ UNCHANGED timer
       ELSE /\ wpc' = [wpc EXCEPT ![w] = "sleep"]
            /\ timer' = [timer EXCEPT ![w] = Backoff(attempt[w])]
            /\ UNCHANGED <<file, done_ids, queue, unfinished, witem, attempt, hist>>
    /\ UNCHANGED <<pureVars, csv_in, conc, n_para, run, exists, backups, mpc, startLen,
                   prevWritten>>

\* asyncio.sleep returns: the next attempt's request is sent
SleepDone(w) ==
    /\ wpc[w] = "sleep"
    /\ AllStarted
    /\ wpc' = [wpc EXCEPT ![w] = "post"]
    /\ attempt' = [attempt EXCEPT ![w] = @ + 1]
    /\ timer' = [timer EXCEPT ![w] = 0]
    /\ hist' = [hist EXCEPT ![witem[w].n].req = @ + 1]
    /\ UNCHANGED <<pureVars, csv_in, conc, n_para, run, exists, file, backups, done_ids,
                   queue, unfinished, mpc, witem, startLen, prevWritten>>

Init ==
    /\ csv_in \in SeqsUpTo(RowSet, MaxRows)
    /\ conc \in 1..MaxWorkers
    /\ n_para \in 1..MaxK
    /\ run = 1
    /\ exists \in BOOLEAN
    /\ file = (IF exists THEN PrevFile ELSE <<>>)
    /\ backups = <<>>
    /\ done_ids = {}
    /\ queue = <<>>
    /\ unfinished = 0
    /\ mpc = "init"
    /\ wpc = [w \in Workers |-> "none"]
    /\ witem = [w \in Workers |-> NoItem]
    /\ attempt = [w \in Workers |-> 0]
    /\ timer = [w \in Workers |-> 0]
    /\ hist = [n \in DOMAIN csv_in |-> NoHist]
    /\ startLen = 0
    /\ prevWritten = {}
    /\ arg = <<>>
    /\ ret = <<>>
    /\ phase = "idle"

Next ==
    \/ MainStart
    \/ MainJoined
    \/ MainDone
    \/ Rerun
    \/ \E w \in Workers : WorkerStart(w)
    \/ \E w \in Workers : WorkerWake(w)
    \/ \E w \in Workers : \E resp \in ResponseSet : PostOk(w, resp)
    \/ \E w \in Workers : \E kind \in FailKinds : PostFail(w, kind)
    \/ \E w \in Workers : SleepDone(w)

Spec == Init /\ [][Next]_vars

\* the steps of worker w that end an await on the network: the request
\* returns a completion or fails
PostReturns(w) ==
    \/ \E resp \in ResponseSet : PostOk(w, resp)
    \/ \E kind \in FailKinds : PostFail(w, kind)

\* The event loop runs every coroutine that is ready (main and the workers
\* once the awaited queue operation can complete), every asyncio.sleep ends,
\* and every request eventually returns or fails. A run has started when
\* asyncio.run has run main up to its first await, which needs no scheduling.
Fairness ==
    /\ WF_vars(MainJoined)
    /\ WF_vars(MainDone)
    /\ \A w \in 1..MaxWorkers :
          /\ WF_vars(w \in Workers /\ WorkerStart(w))
          /\ WF_vars(w \in Workers /\ WorkerWake(w))
          /\ WF_vars(w \in Workers /\ PostReturns(w))
          /\ WF_vars(w \in Workers /\ SleepDone(w))

\* one run of the script, from its start to the end of main()
RunNext ==
    \/ MainStart
    \/ MainJoined
    \/ MainDone
    \/ \E w \in Workers : WorkerStart(w)
    \/ \E w \in Workers : WorkerWake(w)
    \/ \E w \in Workers : PostReturns(w)
    \/ \E w \in Workers : SleepDone(w)

FairSpec == Init /\ [][RunNext]_vars /\ Fairness

(***************************************************************************)
(* gerar_csv.py: normalize_valor.                                          *)
(* float(v) is the IEEE 754 double nearest to the decimal text, and        *)
(* "{:,.2f}" rounds the exact value of that double to two decimals. Both   *)
(* are computed exactly, on natural numbers of any size.                   *)
(***************************************************************************)
NoneValue == <<"None">>

\* the value of a decimal digit
DigitVal(c) == ((CHOOSE i \in DOMAIN DigitSeq : DigitSeq[i] = c) - 1) % 10

IsValorChar(c) == c \in Digits \/ c = "," \/ c = "."
NotDot(c) == c # "."

\* s.replace(a, b) for single characters
ReplaceChar(s, a, b) == [i \in DOMAIN s |-> IF s[i] = a THEN b ELSE s[i]]

\* v = re.sub(r"[^\d,\.]", "", valor_raw).replace(".", "").replace(",", ".")
CleanValor(valor_raw) ==
    ReplaceChar(SelectSeq(SelectSeq(valor_raw, IsValorChar), NotDot), ",", ".")

\* float(v) accepts v: digits with at most one point and at least one digit
FloatParses(v) ==
    /\ \E i \in DOMAIN v : v[i] \in Digits
    /\ Cardinality({i \in DOMAIN v : v[i] = "."}) <= 1

\* A natural number of any size is the sequence of its decimal digits, most
\* significant first and without leading zeros; zero has no digit.
Trim(d) ==
    IF \A i \in DOMAIN d : d[i] = 0 THEN <<>>
    ELSE SubSeq(d, CHOOSE i \in DOMAIN d : d[i] # 0 /\ \A j \in 1..(i - 1) : d[j] = 0, Len(d))

\* a < b
Less(a, b) ==
    \/ Len(a) < Len(b)
    \/ /\ Len(a) = Len(b)
       /\ \E i \in DOMAIN a : a[i] < b[i] /\ \A j \in 1..(i - 1) : a[j] = b[j]

\* a + b: a digit takes a carry when a digit pair to its right sums to 10 or
\* more and every pair in between sums to 9
Plus(a, b) ==
    LET n == (IF Len(a) > Len(b) THEN Len(a) ELSE Len(b)) + 1
        x == [i \in 1..(n - Len(a)) |-> 0] \o a
        y == [i \in 1..(n - Len(b)) |-> 0] \o b
    IN  Trim([i \in 1..n |->
                (x[i] + y[i]
                    + (IF \E j \in (i + 1)..n :
                             x[j] + y[j] >= 10 /\ \A k \in (i + 1)..(j - 1) : x[k] + y[k] = 9
                       THEN 1 ELSE 0)) % 10])

\* a - b for a >= b: a digit lends when a digit of a to its right is less
\* than that of b and every pair in between is equal
Minus(a, b) ==
    LET y == [i \in 1..(Len(a) - Len(b)) |-> 0] \o b
    IN  Trim([i \in DOMAIN a |->
                (10 + a[i] - y[i]
                    - (IF \E j \in (i + 1)..Len(a) :
                             a[j] < y[j] /\ \A k \in (i + 1)..(j - 1) : a[k] = y[k]
                       THEN 1 ELSE 0)) % 10])

\* 2 * d: a digit takes a carry when the digit to its right is 5 or more
Twice(d) ==
    Trim([i \in 1..(Len(d) + 1) |->
            (IF i = 1 THEN 0 ELSE (2 * d[i - 1]) % 10)
                + (IF i <= Len(d) /\ d[i] >= 5 THEN 1 ELSE 0)])

\* d * 2^n
RECURSIVE Shl(_, _)
Shl(d, n) ==
    IF n <= 0 \/ d = <<>> THEN d
    ELSE IF n = 1 THEN Twice(d)
    ELSE Shl(Shl(d, n \div 2), n - (n \div 2))

\* d \div 2^n; in d \div 2 a digit takes 5 when the digit to its left is odd
RECURSIVE Shr(_, _)
Shr(d, n) ==
    IF n <= 0 \/ d = <<>> THEN d
    ELSE IF n = 1
    THEN Trim([i \in DOMAIN d |->
                 (d[i] \div 2) + (IF i > 1 /\ d[i - 1] % 2 = 1 THEN 5 ELSE 0)])
    ELSE Shr(Shr(d, n \div 2), n - (n \div 2))

\* binary long division by b: from the quotient st.q and the remainder
\* st.r < b after st.n steps, the quotient and the remainder after n steps
RECURSIVE DivMod(_, _, _)
DivMod(st, b, n) ==
    IF st.n >= n THEN st
    ELSE IF st.n + 1 < n THEN DivMod(DivMod(st, b, (st.n + n) \div 2), b, n)
    ELSE IF Less(Twice(st.r), b)
    THEN [q |-> Twice(st.q), r |-> Twice(st.r), n |-> st.n + 1]
    ELSE [q |-> Plus(Twice(st.q), <<1>>), r |-> Minus(Twice(st.r), b), n |-> st.n + 1]

\* float(v) for a text v that float accepts: the double nearest to the
\* decimal num / den, ties to the even mantissa. The double is m * 2^e with
\* 2^52 <= m <= 2^53, m in decimal digits; zero is m = <<>> and e = 0, inf
\* (what float returns beyond the largest double) is m = <<>> and e = 1024.
\* Below 2^-1022 a double is subnormal: a multiple of 2^-1074, m < 2^52 and
\* e = -1074, and what rounds to no multiple is zero.
float(v) ==
    LET p   == FirstIn(v, {"."})
        ds  == SelectSeq(v, NotDot)
        num == Trim([i \in DOMAIN ds |-> DigitVal(ds[i])])
        den == <<1>> \o [i \in 1..(IF p = 0 THEN 0 ELSE Len(v) - p) |-> 0]
        \* 10^(k - 1) <= num / den < 10^(k + 1), and 3.3219 < log2(10) < 3.3220
        k   == Len(num) - Len(den)
        lo  == ((k - 1) * (IF k >= 1 THEN 33219 ELSE 33220)) \div 10000
        hi  == ((k + 1) * (IF k >= -1 THEN 33220 ELSE 33219)) \div 10000
        \* 2^x <= num / den < 2^(x + 1)
        x   == CHOOSE n \in lo..hi :
                   /\ ~Less(Shl(num, 0 - n), Shl(den, n))
                   /\ Less(Shl(num, 0 - n - 1), Shl(den, n + 1))
        a   == Shl(num, 0 - x)
        b   == Shl(den, x)
        \* the bits of the mantissa after the leading 1: 52, fewer when the
        \* double is subnormal, none at all (bits < 0) below 2^-1074
        bits == IF x < -1022 THEN x + 1074 ELSE 52
        d   == DivMod([q |-> <<1>>, r |-> Minus(a, b), n |-> 0], b, bits)
        m   == IF bits < 0 THEN (IF bits = -1 /\ a # b THEN <<1>> ELSE <<>>)
               ELSE IF Less(b, Twice(d.r)) \/ (b = Twice(d.r) /\ d.q[Len(d.q)] % 2 = 1)
               THEN Plus(d.q, <<1>>) ELSE d.q
    IN  IF num = <<>> THEN [m |-> <<>>, e |-> 0]
        ELSE IF x > 1023 \/ (x = 1023 /\ m = Shl(<<1>>, 53)) THEN [m |-> <<>>, e |-> 1024]
        ELSE IF m = <<>> THEN [m |-> <<>>, e |-> 0]
        ELSE [m |-> m, e |-> x - bits]

\* the "," grouping of "{:,}": groups of three digits from the right
RECURSIVE GroupThousands(_)
GroupThousands(d) ==
    IF Len(d) <= 3 THEN d
    ELSE LET k == 3 * (((Len(d) + 2) \div 3) \div 2)
         IN  GroupThousands(SubSeq(d, 1, Len(d) - k)) \o <<",">>
                 \o GroupThousands(SubSeq(d, Len(d) - k + 1, Len(d)))

\* f"{num:,.2f}": the double times 100, rounded to the nearest integer (ties
\* to the even one), written with two decimals
FormatCommaTwo(num) ==
    LET h == num.m \o <<0, 0>>
        q == Shr(h, 0 - num.e)
        r == Twice(Minus(h, Shl(q, 0 - num.e)))
        one == Shl(<<1>>, 0 - num.e)
        cents == IF num.e >= 0 THEN Shl(h, num.e)
                 ELSE IF Less(one, r) \/ (one = r /\ q # <<>> /\ q[Len(q)] % 2 = 1)
                 THEN Plus(q, <<1>>) ELSE q
        c == [i \in 1..(3 - Len(cents)) |-> "0"] \o [i \in DOMAIN cents |-> AsciiDigits[cents[i] + 1]]
    IN  IF num.e = 1024 THEN <<"i", "n", "f">>
        ELSE GroupThousands(SubSeq(c, 1, Len(c) - 2)) \o <<".">> \o SubSeq(c, Len(c) - 1, Len(c))

\* .replace(",", "X").replace(".", ",").replace("X", ".")
SwapSeparators(s) == ReplaceChar(ReplaceChar(ReplaceChar(s, ",", "X"), ".", ","), "X", ".")

normalize_valor(valor_raw) ==
    LET v == CleanValor(valor_raw)
    IN  IF ~FloatParses(v) THEN NoneValue
        ELSE SwapSeparators(<<"R", "$", " ">> \o FormatCommaTwo(float(v)))

(***************************************************************************)
(* gerar_csv.py: composite key, deduplication and version index.           *)
(***************************************************************************)
\* re.sub(r"\s+", " ", txt): every run of whitespace becomes one space
RECURSIVE CollapseSpaces(_)
CollapseSpaces(s) ==
    IF s = <<>> THEN <<>>
    ELSE IF Head(s) \notin Spaces THEN <<Head(s)>> \o CollapseSpaces(Tail(s))
    ELSE LET i == FirstNotIn(s, Spaces)
         IN  IF i = 0 THEN <<" ">> ELSE <<" ">> \o CollapseSpaces(Suffix(s, i - 1))

\* re.sub(r"\s+", " ", obj).strip()
NormSpaces(txt) == Strip(CollapseSpaces(txt))

\* the characters of the model and their code points (ord)
AsciiPrintable == <<" ", "!", "\"", "#", "$", "%", "&", "'", "(", ")", "*",
                    "+", ",", "-", ".", "/", "0", "1", "2", "3", "4", "5",
                    "6", "7", "8", "9", ":", ";", "<", "=", ">", "?", "@",
                    "A", "B", "C", "D", "E", "F", "G", "H", "I", "J", "K",
                    "L", "M", "N", "O", "P", "Q", "R", "S", "T", "U", "V",
                    "W", "X", "Y", "Z", "[", "\\", "]", "^", "_", "U+0060", "a",
                    "b", "c", "d", "e", "f", "g", "h", "i", "j", "k", "l",
                    "m", "n", "o", "p", "q", "r", "s", "t", "u", "v", "w",
                    "x", "y", "z", "{", "|", "}", "~">>

Latin1 == <<"U+00A0", "U+00A1", "U+00A2", "U+00A3", "U+00A4", "U+00A5",
            "U+00A6", "U+00A7", "U+00A8", "U+00A9", "U+00AA", "U+00AB",
            "U+00AC", "U+00AD", "U+00AE", "U+00AF", "U+00B0", "U+00B1",
            "U+00B2", "U+00B3", "U+00B4", "U+00B5", "U+00B6", "U+00B7",
            "U+00B8", "U+00B9", "U+00BA", "U+00BB", "U+00BC", "U+00BD",
            "U+00BE", "U+00BF", "U+00C0", "U+00C1", "U+00C2", "U+00C3",
            "U+00C4", "U+00C5", "U+00C6", "U+00C7", "U+00C8", "U+00C9",
            "U+00CA", "U+00CB", "U+00CC", "U+00CD", "U+00CE", "U+00CF",
            "U+00D0", "U+00D1", "U+00D2", "U+00D3", "U+00D4", "U+00D5",
            "U+00D6", "U+00D7", "U+00D8", "U+00D9", "U+00DA", "U+00DB",
            "U+00DC", "U+00DD", "U+00DE", "U+00DF", "U+00E0", "U+00E1",
            "U+00E2", "U+00E3", "U+00E4", "U+00E5", "U+00E6", "U+00E7",
            "U+00E8", "U+00E9", "U+00EA", "U+00EB", "U+00EC", "U+00ED",
            "U+00EE", "U+00EF", "U+00F0", "U+00F1", "U+00F2", "U+00F3",
            "U+00F4", "U+00F5", "U+00F6", "U+00F7", "U+00F8", "U+00F9",
            "U+00FA", "U+00FB", "U+00FC", "U+00FD", "U+00FE", "U+00FF">>

OtherCodes == {<<"\t", 9>>, <<"\n", 10>>, <<"U+000B", 11>>, <<"\f", 12>>,
               <<"\r", 13>>, <<"U+001C", 28>>, <<"U+001D", 29>>,
               <<"U+001E", 30>>, <<"U+001F", 31>>, <<"U+0085", 133>>,
               <<"U+0130", 304>>, <<"U+0307", 775>>, <<"U+0660", 1632>>,
               <<"U+0661", 1633>>, <<"U+0662", 1634>>, <<"U+0663", 1635>>,
               <<"U+0664", 1636>>, <<"U+0665", 1637>>, <<"U+0666", 1638>>,
               <<"U+0667", 1639>>, <<"U+0668", 1640>>, <<"U+0669", 1641>>,
               <<"U+1680", 5760>>, <<"U+2000", 8192>>, <<"U+2001", 8193>>,
               <<"U+2002", 8194>>, <<"U+2003", 8195>>, <<"U+2004", 8196>>,
               <<"U+2005", 8197>>, <<"U+2006", 8198>>, <<"U+2007", 8199>>,
               <<"U+2008", 8200>>, <<"U+2009", 8201>>, <<"U+200A", 8202>>,
               <<"U+2028", 8232>>, <<"U+2029", 8233>>, <<"U+202F", 8239>>,
               <<"U+205F", 8287>>, <<"U+3000", 12288>>}

\* ord(c): the code point of a character of the alphabet
Ord ==
    [c \in Range(AsciiPrintable) \cup Range(Latin1) \cup {p[1] : p \in OtherCodes} |->
        IF c \in Range(AsciiPrintable)
        THEN 31 + (CHOOSE i \in DOMAIN AsciiPrintable : AsciiPrintable[i] = c)
        ELSE IF c \in Range(Latin1)
        THEN 159 + (CHOOSE i \in DOMAIN Latin1 : Latin1[i] = c)
        ELSE (CHOOSE p \in OtherCodes : p[1] = c)[2]]

\* txt.encode("utf-8") for a text without surrogates: the bytes, one to
\* three for each character of the alphabet
RECURSIVE Utf8(_)
Utf8(txt) ==
    IF Len(txt) > 1
    THEN Utf8(SubSeq(txt, 1, Len(txt) \div 2))
             \o Utf8(SubSeq(txt, (Len(txt) \div 2) + 1, Len(txt)))
    ELSE IF txt = <<>> THEN <<>>
    ELSE LET n == Ord[txt[1]]
         IN  IF n < 128 THEN <<n>>
             ELSE IF n < 2048 THEN <<192 + (n \div 64), 128 + (n % 64)>>
             ELSE <<224 + (n \div 4096), 128 + ((n \div 64) % 64), 128 + (n % 64)>>

\* exclusive or and conjunction of two hexadecimal digits, bit by bit
NibbleXor ==
    [a \in 0..15 |-> [b \in 0..15 |->
        ((a + b) % 2) + 2 * (((a \div 2) + (b \div 2)) % 2)
            + 4 * (((a \div 4) + (b \div 4)) % 2) + 8 * (((a \div 8) + (b \div 8)) % 2)]]
NibbleAnd ==
    [a \in 0..15 |-> [b \in 0..15 |->
        ((a % 2) * (b % 2)) + 2 * (((a \div 2) % 2) * ((b \div 2) % 2))
            + 4 * (((a \div 4) % 2) * ((b \div 4) % 2)) + 8 * ((a \div 8) * (b \div 8))]]

\* hashlib.sha1(data).hexdigest() (FIPS 180-4). A 32-bit word is the sequence
\* of its eight hexadecimal digits, the most significant first.
sha1_hexdigest(data) ==
    LET Digit8(Op(_)) == <<Op(1), Op(2), Op(3), Op(4), Op(5), Op(6), Op(7), Op(8)>>
        Word(hi, lo) ==
            Digit8(LAMBDA i : IF i <= 4 THEN (hi \div (16 ^ (4 - i))) % 16
                              ELSE (lo \div (16 ^ (8 - i))) % 16)
        High(w) == 4096 * w[1] + 256 * w[2] + 16 * w[3] + w[4]
        Low(w)  == 4096 * w[5] + 256 * w[6] + 16 * w[7] + w[8]
        \* the sum of five words modulo 2^32
        Add(a, b, c, d, e) ==
            LET lo == Low(a) + Low(b) + Low(c) + Low(d) + Low(e)
            IN  Word((High(a) + High(b) + High(c) + High(d) + High(e) + (lo \div 65536)) % 65536,
                     lo % 65536)
        Zero == <<0, 0, 0, 0, 0, 0, 0, 0>>
        \* rotation to the left by n bits
        Rotl(w, n) ==
            Digit8(LAMBDA i :
                ((w[((i - 1 + (n \div 4)) % 8) + 1] * (2 ^ (n % 4))) % 16)
                    + (w[((i + (n \div 4)) % 8) + 1] \div (2 ^ (4 - (n % 4)))))
        Xor(a, b) == Digit8(LAMBDA i : NibbleXor[a[i]][b[i]])
        Ch(b, c, d) ==
            Digit8(LAMBDA i : NibbleXor[NibbleAnd[b[i]][c[i]]][NibbleAnd[15 - b[i]][d[i]]])
        Maj(b, c, d) ==
            Digit8(LAMBDA i : NibbleXor[NibbleXor[NibbleAnd[b[i]][c[i]]][NibbleAnd[b[i]][d[i]]]]
                                       [NibbleAnd[c[i]][d[i]]])
        F(t, b, c, d) ==
            IF t < 20 THEN Ch(b, c, d)
            ELSE IF t >= 40 /\ t < 60 THEN Maj(b, c, d)
            ELSE Xor(Xor(b, c), d)
        K(t) ==
            IF t < 20 THEN <<5, 10, 8, 2, 7, 9, 9, 9>>
            ELSE IF t < 40 THEN <<6, 14, 13, 9, 14, 11, 10, 1>>
            ELSE IF t < 60 THEN <<8, 15, 1, 11, 11, 12, 13, 12>>
            ELSE <<12, 10, 6, 2, 12, 1, 13, 6>>
        \* the message with its padding: 0x80, zeros, the length in bits
        padded ==
            data \o <<128>> \o [i \in 1..((55 - Len(data)) % 64) |-> 0]
                 \o <<0, 0, 0, 0, ((8 * Len(data)) \div 16777216) % 256,
                      ((8 * Len(data)) \div 65536) % 256,
                      ((8 * Len(data)) \div 256) % 256, (8 * Len(data)) % 256>>
        \* the first n words of the message schedule of a block of 64 bytes,
        \* from the first Len(w) of them: the 16 words of the block, then each
        \* word from four earlier ones
        RECURSIVE Schedule(_, _, _)
        Schedule(w, n, block) ==
            IF Len(w) >= n THEN w
            ELSE IF Len(w) + 1 < n
            THEN Schedule(Schedule(w, (Len(w) + n) \div 2, block), n, block)
            ELSE IF Len(w) < 16
            THEN Append(w, Word(256 * block[4 * Len(w) + 1] + block[4 * Len(w) + 2],
                                256 * block[4 * Len(w) + 3] + block[4 * Len(w) + 4]))
            ELSE Append(w, Rotl(Xor(Xor(w[Len(w) - 2], w[Len(w) - 7]),
                                    Xor(w[Len(w) - 13], w[Len(w) - 15])), 1))
        \* the working variables a, b, c, d, e and the number of rounds done,
        \* after one more round
        Round(s, w) ==
            <<Add(Rotl(s[1], 5), F(s[6], s[2], s[3], s[4]), s[5], K(s[6]), w[s[6] + 1]),
              s[1], Rotl(s[2], 30), s[3], s[4], s[6] + 1>>
        \* the working variables after n rounds, one for each word of w
        RECURSIVE Rounds(_, _, _)
        Rounds(s, n, w) ==
            IF s[6] >= n THEN s
            ELSE IF s[6] + 1 < n THEN Rounds(Rounds(s, (s[6] + n) \div 2, w), n, w)
            ELSE Round(s, w)
        \* the hash value and the number of blocks done, after one more block
        \* of the padded message
        Compress(h) ==
            LET w == Schedule(<<>>, 80, SubSeq(padded, 64 * h[6] + 1, 64 * h[6] + 64))
                s == Rounds(<<h[1], h[2], h[3], h[4], h[5], 0>>, Len(w), w)
            IN  <<Add(h[1], s[1], Zero, Zero, Zero), Add(h[2], s[2], Zero, Zero, Zero),
                  Add(h[3], s[3], Zero, Zero, Zero), Add(h[4], s[4], Zero, Zero, Zero),
                  Add(h[5], s[5], Zero, Zero, Zero), h[6] + 1>>
        \* the hash value after n blocks
        RECURSIVE Blocks(_, _)
        Blocks(h, n) ==
            IF h[6] >= n THEN h
            ELSE IF h[6] + 1 < n THEN Blocks(Blocks(h, (h[6] + n) \div 2), n)
            ELSE Compress(h)
        last == Blocks(<<<<6, 7, 4, 5, 2, 3, 0, 1>>, <<14, 15, 12, 13, 10, 11, 8, 9>>,
                         <<9, 8, 11, 10, 13, 12, 15, 14>>, <<1, 0, 3, 2, 5, 4, 7, 6>>,
                         <<12, 3, 13, 2, 14, 1, 15, 0>>, 0>>, Len(padded) \div 64)
        digest == last[1] \o last[2] \o last[3] \o last[4] \o last[5]
    IN  [i \in 1..40 |->
            <<"0", "1", "2", "3", "4", "5", "6", "7", "8", "9",
              "a", "b", "c", "d", "e", "f">>[digest[i] + 1]]

\* hashlib.sha1(txt.encode("utf-8")).hexdigest()[:12]
sha12(txt) == Prefix(sha1_hexdigest(Utf8(txt)), 12)

\* meta.get(key, default)
Get(meta, key, default) == IF key \in DOMAIN meta THEN meta[key] ELSE default

NoObjHash       == <<"n", "o", "_", "o", "b", "j", "_", "h", "a", "s", "h">>
UnknownProcesso == <<"u", "n", "k", "n", "o", "w", "n", "_", "p", "r", "o", "c", "e", "s", "s", "o">>
UnknownNumero   == <<"u", "n", "k", "n", "o", "w", "n", "_", "n", "u", "m", "e", "r", "o">>

make_composite_key(meta) ==
    LET obj      == NormSpaces(Get(meta, "objeto_contrato", <<>>))
        obj_hash == IF obj # <<>> THEN sha12(obj) ELSE NoObjHash
    IN  obj_hash \o <<"_">> \o Get(meta, "processo_gdf", UnknownProcesso)
                 \o <<"_">> \o Get(meta, "numero_contrato", UnknownNumero)

sha_full_raw_text(entry) == sha12(entry.raw_text)

\* if not (obj and val): continue ... if not val_norm: continue
KeepsEntry(entry) ==
    /\ Get(entry.meta, "objeto_contrato", NoneValue) \notin {NoneValue, <<>>}
    /\ Get(entry.meta, "valor_contrato", NoneValue) \notin {NoneValue, <<>>}
    /\ normalize_valor(entry.meta["valor_contrato"]) # NoneValue

\* the dict appended to rows for an entry that is kept
RowOf(entry) ==
    [composite_key   |-> make_composite_key(entry.meta),
     objeto_contrato |-> NormSpaces(entry.meta["objeto_contrato"]),
     valor_contrato  |-> normalize_valor(entry.meta["valor_contrato"]),
     processo_gdf    |-> Get(entry.meta, "processo_gdf", <<>>),
     numero_contrato |-> Get(entry.meta, "numero_contrato", <<>>),
     raw_text_hash   |-> sha_full_raw_text(entry)]

\* rows, as the for loop of main builds it
BuildRows(dataset) ==
    LET kept == SelectSeq(dataset, KeepsEntry)
    IN  [i \in DOMAIN kept |-> RowOf(kept[i])]

SamePair(a, b) ==
    a.composite_key = b.composite_key /\ a.raw_text_hash = b.raw_text_hash

\* mutant of DropDuplicates: keep="last"
RECURSIVE DropDuplicatesKeepLast(_)
DropDuplicatesKeepLast(rows) ==
    IF rows = <<>> THEN <<>>
    ELSE IF \E j \in DOMAIN Tail(rows) : SamePair(Tail(rows)[j], Head(rows))
         THEN DropDuplicatesKeepLast(Tail(rows))
         ELSE <<Head(rows)>> \o DropDuplicatesKeepLast(Tail(rows))

\* df.drop_duplicates(subset=["composite_key", "raw_text_hash"]): the first
\* row of every (composite_key, raw_text_hash) pair, in the order of rows
RECURSIVE DropDuplicates(_)
DropDuplicates(rows) ==
    IF rows = <<>> THEN <<>>
    ELSE LET init == SubSeq(rows, 1, Len(rows) - 1)
             last == rows[Len(rows)]
         IN  IF \E j \in DOMAIN init : SamePair(init[j], last)
             THEN DropDuplicates(init)
             ELSE Append(DropDuplicates(init), last)

\* df.groupby("composite_key").cumcount(): how many earlier rows of the frame
\* have the row's composite_key
CumCount(df, i) ==
    Cardinality({j \in 1..(i - 1) : df[j].composite_key = df[i].composite_key})

\* df["versao_idx"] = df.groupby("composite_key").cumcount()
WithVersao(df) ==
    [i \in DOMAIN df |->
        [composite_key   |-> df[i].composite_key,
         objeto_contrato |-> df[i].objeto_contrato,
         valor_contrato  |-> df[i].valor_contrato,
         processo_gdf    |-> df[i].processo_gdf,
         numero_contrato |-> df[i].numero_contrato,
         raw_text_hash   |-> df[i].raw_text_hash,
         versao_idx      |-> CumCount(df, i)]]

\* gerar_csv.main on a dataset: csv tells whether CSV_OUT was opened for
\* writing, rows are the rows written to it. encode raises
\* UnicodeEncodeError in the loop when a text to hash, of an entry that is
\* kept, holds a surrogate. With no row kept the frame has no column and
\* drop_duplicates raises KeyError.
\* df.to_csv(CSV_OUT, index=False, encoding="utf-8") encodes the lines one
\* at a time, in order, and the first one that cannot be encoded ends the
\* writing with UnicodeEncodeError: the file keeps the header and the rows
\* before it. Of the columns, the key and the two texts copied from meta
\* can hold a surrogate (the object was encoded in the loop, the value and
\* the hash are ASCII).
gerar_csv_main(dataset) ==
    LET kept == SelectSeq(dataset, KeepsEntry)
        RowEncodable(row) == /\ Encodable(row.composite_key)
                             /\ Encodable(row.processo_gdf)
                             /\ Encodable(row.numero_contrato)
        to_csv(df) ==
            LET bad == {i \in DOMAIN df : ~RowEncodable(df[i])}
            IN  IF bad = {} THEN [err |-> "", csv |-> TRUE, rows |-> df]
                ELSE [err  |-> "UnicodeEncodeError", csv |-> TRUE,
                      rows |-> SubSeq(df, 1, (CHOOSE i \in bad : \A j \in bad : i <= j) - 1)]
    IN  IF \E i \in DOMAIN kept :
               \/ ~Encodable(NormSpaces(kept[i].meta["objeto_contrato"]))
               \/ ~Encodable(kept[i].raw_text)
        THEN [err |-> "UnicodeEncodeError", csv |-> FALSE, rows |-> <<>>]
        ELSE IF kept = <<>>
        THEN [err |-> "KeyError", csv |-> FALSE, rows |-> <<>>]
        ELSE to_csv(WithVersao(DropDuplicates(BuildRows(dataset))))

(***************************************************************************)
(* Specifications of the pure functions: the argument is drawn, then the   *)
(* function is applied.                                                    *)
(***************************************************************************)
PipeIdle ==
    /\ csv_in = <<>> /\ conc = 0 /\ n_para = 0 /\ run = 0
    /\ exists = FALSE /\ file = <<>> /\ backups = <<>> /\ done_ids = {}
    /\ queue = <<>> /\ unfinished = 0 /\ mpc = "idle"
    /\ wpc = <<>> /\ witem = <<>> /\ attempt = <<>> /\ timer = <<>>
    /\ hist = <<>> /\ startLen = 0 /\ prevWritten = {}

\* ---- extract_questions --------------------------------------------------
\* U+0663 is the Arabic-Indic digit three, U+00A0 the no-break space
TextChars == {"P", "p", "1", "U+0663", ":", " ", "U+00A0", "\n", "\r", "\f", "q"}

LineA == <<"P", "1", ":", " ", "q">>
LineB == <<"p", "2", " ", ":", "r", ":", "s">>
LineC == <<" ", "P", "1", "0", ":", "t", " ">>
TextLines == {LineA, LineB, LineC,
              <<"x">>,
              <<"P", "U+0663", "U+00A0", ":", "u", "\r">>,
              <<"R", "e", "s", "p", "o", "s", "t", "a", ":", " ", "1">>}

\* "\n".join(ls)
RECURSIVE JoinLines(_)
JoinLines(ls) ==
    IF ls = <<>> THEN <<>>
    ELSE IF Len(ls) = 1 THEN ls[1]
    ELSE ls[1] \o <<"\n">> \o JoinLines(Tail(ls))

Texts == SeqsUpTo(TextChars, MaxText) \cup {JoinLines(ls) : ls \in SeqsUpTo(TextLines, MaxLines)}

ExtractInit ==
    /\ PipeIdle
    /\ arg \in [text : Texts, k : 0..MaxK]
    /\ ret = <<>>
    /\ phase = "call"

ExtractCall ==
    /\ phase = "call"
    /\ ret' = extract_questions(arg.text, arg.k)
    /\ phase' = "return"
    /\ UNCHANGED <<arg, pipeVars>>

ExtractNext == ExtractCall

SpecExtract == ExtractInit /\ [][ExtractNext]_vars

\* ---- normalize_valor ----------------------------------------------------
ValorChars == {"0", "1", "5", "9", "U+0663", ".", ","}

ValBR    == <<"R", "$", " ", "1", ".", "0", "0", "0", ",", "5", "0">>
ValDot   == <<"1", "0", "0", "0", ".", "5", "0">>
ValBig   == <<"1", ".", "2", "3", "4", ".", "5", "6", "7", ",", "8", "9", "5">>
\* the others: 10^309, above the largest double, and 10^-310, a subnormal
\* double; texts of more than 15 significant digits, which float rounds
\* (1,01500000000000001 and 0,00499999999999999999 and 2^53 + 1 and
\* 99999999999999999 and 0,1250000000000000001), and texts with a sign or
\* without a digit
LongValores == {ValBR, ValDot, ValBig,
                <<"1">> \o [i \in 1..MaxZeros |-> "0"],
                <<"0", ",">> \o [i \in 1..MaxZeros |-> "0"] \o <<"1">>,
                <<"R", "$", " ", "0", ",", "0", "0", "5">>,
                <<"R", "$", " ", "-", "3", ",", "1", "0">>,
                <<"a", "b", "c">>,
                <<"1", ",", "0", "1", "5", "0", "0", "0", "0", "0", "0", "0", "0", "0", "0", "0",
                  "0", "0", "1">>,
                <<"0", ",", "0", "0", "4", "9", "9", "9", "9", "9", "9", "9", "9", "9", "9", "9",
                  "9", "9", "9", "9", "9", "9">>,
                <<"9", "0", "0", "7", "1", "9", "9", "2", "5", "4", "7", "4", "0", "9", "9", "3">>,
                <<"9", "9", "9", "9", "9", "9", "9", "9", "9", "9", "9", "9", "9", "9", "9", "9",
                  "9">>,
                <<"0", ",", "1", "2", "5", "0", "0", "0", "0", "0", "0", "0", "0", "0", "0", "0",
                  "0", "0", "0", "0", "1">>}

ValorInputs == SeqsUpTo(ValorChars, MaxValLen) \cup LongValores

NormInit ==
    /\ PipeIdle
    /\ arg \in ValorInputs
    /\ ret = <<>>
    /\ phase = "call"

\* val_norm = normalize_valor(val)
NormCall ==
    /\ phase = "call"
    /\ ret' = <<normalize_valor(arg)>>
    /\ phase' = "return"
    /\ UNCHANGED <<arg, pipeVars>>

\* normalize_valor applied to the string it returned
NormAgain ==
    /\ phase = "return"
    /\ ret[1] # NoneValue
    /\ ret' = Append(ret, normalize_valor(ret[1]))
    /\ phase' = "again"
    /\ UNCHANGED <<arg, pipeVars>>

NormNext == NormCall \/ NormAgain

SpecNorm == NormInit /\ [][NormNext]_vars

\* ---- gerar_csv.main -----------------------------------------------------
Meta(obj, val, proc, num) ==
    [x \in {"objeto_contrato", "valor_contrato", "processo_gdf", "numero_contrato"} |->
        CASE x = "objeto_contrato" -> obj
          [] x = "valor_contrato"  -> val
          [] x = "processo_gdf"    -> proc
          [] x = "numero_contrato" -> num]

\* entries of the dataset: E1 and E2 have the same key and raw text and
\* differ in the value; E3 has E1's key and another raw text; the others
\* lack the contract number, lack the value, have a value that is no number,
\* have an object of blanks only, have a raw text that utf-8 cannot encode,
\* have a process number or a contract number that utf-8 cannot encode
E1 == [raw_text |-> <<"x">>, meta |-> Meta(<<"A", " ", "b">>, <<"1", ",", "5">>, <<"1">>, <<"2">>)]
E2 == [raw_text |-> <<"x">>, meta |-> Meta(<<"A", " ", "U+00A0", "b", "\f">>, <<"2", ",", "5">>, <<"1">>, <<"2">>)]
E3 == [raw_text |-> <<"y">>, meta |-> Meta(<<"A", " ", "b">>, <<"1", ",", "5">>, <<"1">>, <<"2">>)]
EntrySet ==
    {E1, E2, E3,
     [raw_text |-> <<"z", "z">>,
      meta |-> [x \in {"objeto_contrato", "valor_contrato", "processo_gdf"} |->
                   CASE x = "objeto_contrato" -> <<"C">>
                     [] x = "valor_contrato"  -> <<"R", "$", " ", "2">>
                     [] x = "processo_gdf"    -> <<"1", "_", "2">>]],
     [raw_text |-> <<"x">>, meta |-> [x \in {"objeto_contrato"} |-> <<"A", " ", "b">>]],
     [raw_text |-> <<"w">>,
      meta |-> [x \in {"objeto_contrato", "valor_contrato"} |->
                   IF x = "objeto_contrato" THEN <<"C">> ELSE <<"a", "b", "c">>]],
     [raw_text |-> <<"x">>, meta |-> Meta(<<" ">>, <<"1", ",", "5">>, <<"1">>, <<"2">>)],
     [raw_text |-> <<"U+D800">>, meta |-> Meta(<<"C">>, <<"3">>, <<"1">>, <<"2">>)],
     [raw_text |-> <<"v">>, meta |-> Meta(<<"A", " ", "b">>, <<"1", ",", "5">>, <<"U+D800">>, <<"2">>)],
     [raw_text |-> <<"v">>, meta |-> Meta(<<"C">>, <<"3">>, <<"1">>, <<"U+DFFF">>)]}

CsvInit ==
    /\ PipeIdle
    /\ arg \in SeqsUpTo(EntrySet, MaxEntries)
    /\ ret = <<>>
    /\ phase = "call"

CsvMain ==
    /\ phase = "call"
    /\ ret' = gerar_csv_main(arg)
    /\ phase' = "return"
    /\ UNCHANGED <<arg, pipeVars>>

CsvNext == CsvMain

SpecCsv == CsvInit /\ [][CsvNext]_vars

\* ---- prepare_output -----------------------------------------------------
LogLines == {JunkLine, NoIdLine, NotObjLine, BadIdLine, UndecodableLine,
             Fragment(Uid(slug(ObjA, SlugLen), 0, 1)),
             QALine(Uid(slug(ObjA, SlugLen), 0, 0), <<"q">>, "R$ 1,00", ObjA),
             QALine(Uid(slug(ObjB, SlugLen), 1, 1), <<"r">>, "R$ 1,00", ObjB)}

PrepareInit ==
    /\ PipeIdle
    /\ arg \in {[ex |-> FALSE, f |-> <<>>]}
                 \cup [ex : {TRUE}, f : SeqsUpTo(LogLines, MaxLogLines)]
    /\ ret = <<>>
    /\ phase = "call"

\* out, done_ids = prepare_output(OUTFILE)
PrepareCall ==
    /\ phase = "call"
    /\ ret' = prepare_output(arg.ex, arg.f, <<>>, 0)
    /\ phase' = "return"
    /\ UNCHANGED <<arg, pipeVars>>

PrepareNext == PrepareCall

SpecPrepare == PrepareInit /\ [][PrepareNext]_vars

(***************************************************************************)
(* perguntas_para_chroma.py: the indexing adapter.                         *)
(***************************************************************************)
\* a line of the JSON-lines file that json.loads rejects
BadJson == [kind |-> <<"junk">>]

\* os.path.exists(persist_directory) is false
Absent == [kind |-> "absent"]

\* no call that hands documents to the vector store was made
Nothing == [kind |-> "nothing"]

\* entry['question'], entry['objeto'], entry['answer'], entry['valor'] exist
HasTextFields(entry) == {"question", "objeto", "answer", "valor"} \subseteq DOMAIN entry

\* the loop of main stops at this line: json.loads rejects it (load_jsonl) or
\* a field of the combined text is missing
Rejected(entry) == entry = BadJson \/ ~HasTextFields(entry)

\* the first line at which the loop stops
FirstRejected(lines) ==
    CHOOSE i \in DOMAIN lines :
        Rejected(lines[i]) /\ \A j \in 1..(i - 1) : ~Rejected(lines[j])

\* mutant of CombinedText: the object left out of the text
CombinedTextNoObjeto(entry) ==
    entry["question"] \o <<" ">> \o entry["answer"] \o <<" ">> \o entry["valor"]

\* f"{entry['question']} {entry['objeto']} {entry['answer']} {entry['valor']}"
CombinedText(entry) ==
    entry["question"] \o <<" ">> \o entry["objeto"] \o <<" ">> \o entry["answer"]
        \o <<" ">> \o entry["valor"]

\* the metadata mapping: entry.get(key, "") for the five keys
Metadata(entry) ==
    [key \in {"id", "question", "answer", "objeto", "valor"} |-> Get(entry, key, <<>>)]

\* main(): what it raises, the texts and metadatas it built, the call made on
\* the vector store and the batch handed to it, given the lines of the file
\* and the persist directory (Absent, or the batch it holds)
chroma_main(lines, db) ==
    IF \E i \in DOMAIN lines : Rejected(lines[i])
    THEN [raised |-> (IF lines[FirstRejected(lines)] = BadJson
                      THEN "JSONDecodeError" ELSE "KeyError"),
          texts |-> <<>>, metadatas |-> <<>>, called |-> "none", handed |-> Nothing]
    ELSE LET texts     == [i \in DOMAIN lines |-> CombinedText(lines[i])]
             metadatas == [i \in DOMAIN lines |-> Metadata(lines[i])]
         IN  IF db # Absent
             THEN [raised |-> "", texts |-> texts, metadatas |-> metadatas,
                   called |-> "Chroma", handed |-> Nothing]
             ELSE [raised |-> "", texts |-> texts, metadatas |-> metadatas,
                   called |-> "from_texts",
                   handed |-> [texts |-> texts, metadatas |-> metadatas]]

\* records of the file: two QAPairs, an object without "id", an object
\* without "valor"
Rec(id, q, obj, val) ==
    [key \in {"id", "question", "answer", "objeto", "valor"} |->
        CASE key = "id"       -> id
          [] key = "question" -> q
          [] key = "answer"   -> val
          [] key = "objeto"   -> obj
          [] key = "valor"    -> val]
Rec1 == Rec(<<"a", "_", "0", "0", "_", "v", "0">>, <<"q">>, <<"A">>, <<"1">>)
Rec2 == Rec(<<"a", "_", "0", "0", "_", "v", "1">>, <<"r">>, <<"A">>, <<"1">>)
RecNoId == [key \in {"question", "answer", "objeto", "valor"} |-> Rec1[key]]
RecordSet == {Rec1, Rec2, RecNoId, BadJson,
              [key \in {"id", "question", "answer", "objeto"} |-> Rec2[key]]}

\* a store left by an earlier run on a file that held Rec1 only
OldStore == [texts |-> <<CombinedText(Rec1)>>, metadatas |-> <<Metadata(Rec1)>>]

ChromaInit ==
    /\ PipeIdle
    /\ arg \in [jsonl : SeqsUpTo(RecordSet, MaxRecords), db : {Absent, OldStore}]
    /\ ret = <<>>
    /\ phase = "call"

\* one run of the adapter; from_texts creates the persist directory with the
\* batch it was given, Chroma(persist_directory=...) leaves it as it is
ChromaMain ==
    /\ phase \in {"call", "return"}
    /\ ret' = chroma_main(arg.jsonl, arg.db)
    /\ arg' = [arg EXCEPT !.db = IF ret'.called = "from_texts" THEN ret'.handed ELSE @]
    /\ phase' = (IF phase = "call" THEN "return" ELSE "again")
    /\ UNCHANGED pipeVars

ChromaNext == ChromaMain

SpecChroma == ChromaInit /\ [][ChromaNext]_vars

(***************************************************************************)
(* Claims about the generation pipeline (specification Spec).              *)
(***************************************************************************)
\* the ids of the QAPair lines of a log (a QAPair written after a fragment
\* is the rest of the fragment's line, not a line)
QAIds(f) ==
    {f[i].id : i \in {j \in DOMAIN f : f[j].kind = "qa" /\ (j = 1 \/ f[j - 1].kind # "partial")}}

RECURSIVE SumCnt(_, _)
SumCnt(h, n) == IF n = 0 THEN 0 ELSE h[n].cnt + SumCnt(h, n - 1)

\* the P-lines of a completion, counted on the lines themselves
PLineIdx(text) == {i \in DOMAIN SplitLines(text) : MatchesP(Strip(SplitLines(text)[i]))}

\* C1 (stated as claimed): in a second run on the same CSV with the log left
\* in place, a task that wrote a QAPair in the first run sends no LLM request,
\* and no id already in the log at startup is appended again.
C1_ResumeIdempotent ==
    (run >= 2 /\ mpc # "init") =>
        /\ \A n \in prevWritten : hist[n].req = 0
        /\ \A i \in (startLen + 1)..Len(file) :
               file[i].kind = "qa" => file[i].id \notin QAIds(SubSeq(file, 1, startLen))

\* C2 (stated as claimed): every enqueued task is taken from the queue exactly once, by one
\* worker, and gets exactly one task_done (processed or skipped); no worker
\* leaves its loop before every task of the run is marked done.
C2_ExactlyOnce ==
    mpc # "init" =>
        /\ \A n \in DOMAIN csv_in :
              LET inQ  == {i \in DOMAIN queue : queue[i].kind = "task" /\ queue[i].n = n}
                  held == {w \in Workers : wpc[w] \in {"post", "sleep"} /\ witem[w].n = n}
              IN  /\ hist[n].deq \in {0, 1}
                  /\ hist[n].done <= hist[n].deq
                  /\ Cardinality(inQ) + Cardinality(held) + hist[n].done = 1
                  /\ Cardinality(inQ) = 1 - hist[n].deq
                  /\ (hist[n].done = 1) <=>
                        (hist[n].outcome \in {"skipped", "written", "failed_llm",
                                               "failed_parse", "failed_write"})
        /\ (\E w \in Workers : wpc[w] = "exit") => \A n \in DOMAIN csv_in : hist[n].done = 1
        /\ mpc \in {"gather", "done"} => \A n \in DOMAIN csv_in : hist[n].done = 1

\* C3 (stated as claimed): a task that is not skipped and whose completion
\* has m >= 1 P-lines appends exactly min(m, k) lines, with ids
\* {baseId}_{v:02d}_v{i} for i = 0 .. min(m, k) - 1 in that order, answer =
\* valor = the row's value and objeto = the row's object; nothing else is
\* appended in the run.
C3_WrittenLines ==
    mpc # "init" =>
        /\ Len(file) = startLen + SumCnt(hist, Len(csv_in))
        /\ \A n \in DOMAIN csv_in :
              LET row == csv_in[n]
                  h   == hist[n]
                  m   == Cardinality(PLineIdx(h.resp))
              IN  (h.done = 1 /\ h.req > 0 /\ m >= 1) =>
                        /\ h.cnt = Min(m, n_para)
                        /\ \A i \in 0..(h.cnt - 1) :
                              LET ln == file[h.from + i]
                              IN  /\ ln.kind = "qa"
                                  /\ ln.id = slug(row.objeto_contrato, 60) \o <<"_">>
                                               \o Fmt02d(row.versao_idx) \o <<"_", "v">> \o IntToStr(i)
                                  /\ ln.answer = row.valor_contrato
                                  /\ ln.valor = row.valor_contrato
                                  /\ ln.objeto = row.objeto_contrato

\* C5: call_llm sends at most RETRIES = 3 requests for a task, whatever the
\* outcome; a failed attempt a < 3 is followed by a sleep of 3 * a and then by
\* attempt a + 1; a successful attempt ends the call with no further request;
\* a failure of attempt 3 reaches the worker with no sleep and no new attempt.
C5_RetryPolicy ==
    [][/\ \A w \in Workers :
          LET n == witem[w].n
          IN  /\ wpc[w] = "post" =>
                    /\ attempt[w] \in 1..3
                    /\ hist[n].req = attempt[w]
                    /\ \/ (wpc'[w] = "post" /\ witem'[w] = witem[w]
                               /\ attempt'[w] = attempt[w] /\ hist'[n] = hist[n])
                       \/ (wpc'[w] = "sleep" /\ witem'[w] = witem[w] /\ attempt[w] < 3
                               /\ timer'[w] = 3 * attempt[w]
                               /\ attempt'[w] = attempt[w] /\ hist'[n] = hist[n])
                       \/ (hist'[n].done = 1 /\ hist'[n].req = attempt[w]
                               /\ (wpc'[w] \in {"post", "sleep"} => witem'[w] # witem[w])
                               /\ (hist'[n].outcome = "failed_llm" => attempt[w] = 3)
                               /\ hist'[n].outcome \in {"failed_llm", "failed_parse",
                                                        "failed_write", "written"})
                       \/ (wpc'[w] = "raised" /\ hist'[n].req = attempt[w]
                               /\ hist'[n].outcome = "raised")
              /\ wpc[w] = "sleep" =>
                    /\ attempt[w] \in 1..2
                    /\ hist[n].req = attempt[w]
                    /\ \/ (wpc'[w] = "sleep" /\ witem'[w] = witem[w]
                               /\ attempt'[w] = attempt[w] /\ hist'[n] = hist[n])
                       \/ (wpc'[w] = "post" /\ witem'[w] = witem[w]
                               /\ attempt'[w] = attempt[w] + 1
                               /\ hist'[n].req = attempt[w] + 1 /\ hist'[n].done = 0)
       /\ \A m \in DOMAIN csv_in :
              ((hist[m].done = 1 \/ hist[m].outcome = "raised") /\ run' = run) =>
                  hist'[m].req = hist[m].req]_vars

C5_Witness ==
    /\ \E n \in DOMAIN csv_in : hist[n].outcome = "failed_llm" /\ hist[n].req = 3
    /\ \E n \in DOMAIN csv_in : hist[n].outcome = "failed_parse" /\ hist[n].req = 2

\* C6 (stated as claimed): when call_llm (retries exhausted) or extract_questions fails for a
\* task, the worker that held it goes on with its loop (it leaves only on a
\* stop sentinel), the other workers and the items still queued are left as
\* they are, the failed task is not put back, and main ends only when every
\* task of the CSV has been processed or skipped.
C6_FailureIsolation ==
    [][/\ \A w \in Workers :
             (wpc[w] \in {"post"} /\ witem[w].kind = "task"
                  /\ hist'[witem[w].n].outcome \in {"failed_llm", "failed_parse", "raised"}) =>
                 /\ wpc'[w] \in {"post", "get", "exit"}
                 /\ wpc'[w] = "exit" => witem'[w] = None
                 /\ \A v \in Workers \ {w} : wpc'[v] = wpc[v] /\ witem'[v] = witem[v]
                 /\ \E j \in 0..Len(queue) : queue' = Suffix(queue, j)
                 /\ \A i \in DOMAIN queue' : queue'[i].kind = "task" => queue'[i].n # witem[w].n
                 /\ mpc' = mpc
       /\ \A w \in Workers : wpc'[w] = "exit" => witem'[w] = None
       /\ mpc' = "done" =>
             \A n \in DOMAIN csv_in :
                 hist'[n].done = 1 /\ hist'[n].outcome # "none"]_vars

\* C7: the log is append-only: every step leaves what is already in the file
\* as an unchanged prefix of it; a start that finds the file leaves, in the
\* same step in which the file is opened and before anything is appended, a
\* backup copy holding exactly the contents found (a new copy, or a copy
\* that replaces the backup of a start in the same second, the other
\* backups left as they are); no other step touches the backups.
C7_AppendOnly ==
    [][/\ Len(file') >= Len(file)
       /\ SubSeq(file', 1, Len(file)) = file
       /\ (mpc = "init" /\ mpc' # "init" /\ exists) =>
             /\ file' = file
             /\ \/ backups' = backups \o <<file>>
                \/ \E j \in DOMAIN backups : backups' = [backups EXCEPT ![j] = file]
       /\ (mpc = "init" /\ mpc' # "init" /\ ~exists) => (backups' = backups /\ file' = <<>>)
       /\ mpc # "init" => backups' = backups]_vars

\* a second start in the same second as the first: one backup, which holds
\* the contents found by the second start
C7_Witness ==
    /\ run = 2 /\ Len(backups) = 1 /\ Len(file) > startLen
    /\ startLen > Len(PrevFile) /\ SubSeq(file, 1, Len(PrevFile)) = PrevFile
    /\ backups[1] = SubSeq(file, 1, startLen)

(***************************************************************************)
(* Claims about extract_questions (specification SpecExtract).             *)
(***************************************************************************)
\* the j-th smallest member of a set of indices
NthOf(S, j) == CHOOSE i \in S : Cardinality({x \in S : x < i}) = j - 1

\* C4: extract_questions(text, k) returns, in order of appearance, the
\* (trimmed) text after the first colon of the first min(m, k) lines that
\* match P<number>: whatever the case of the P, m being the number of such
\* lines; the result is never padded to k; with m = 0 it raises.
C4_ExtractQuestions ==
    phase = "return" =>
        LET lines == SplitLines(arg.text)
            idx   == PLineIdx(arg.text)
            m     == Cardinality(idx)
        IN  /\ m = 0 => (ret.err = "ValueError" /\ ret.qs = <<>>)
            /\ m > 0 =>
                  /\ ret.err = ""
                  /\ Len(ret.qs) = Min(m, arg.k)
                  /\ \A j \in 1..Len(ret.qs) :
                        LET l == lines[NthOf(idx, j)]
                        IN  ret.qs[j] = Strip(Suffix(l, FirstIn(l, {":"})))

C4_Witness ==
    /\ phase = "return"
    /\ arg.text = JoinLines(<<LineA, LineB, LineC>>)
    /\ arg.k = 2
    /\ ret.qs = <<<<"q">>, <<"r", ":", "s">>>>

(***************************************************************************)
(* Claims about gerar_csv.py (specifications SpecCsv and SpecNorm).        *)
(***************************************************************************)
PairOf(r) == <<r.composite_key, r.raw_text_hash>>

\* the index in rows of the first row with the pair of r
FirstWithPair(rows, r) ==
    CHOOSE i \in DOMAIN rows :
        PairOf(rows[i]) = PairOf(r) /\ \A j \in 1..(i - 1) : PairOf(rows[j]) # PairOf(r)

\* C8: in the rows written to the CSV (all of them when main returns, those
\* before the row that to_csv could not encode when it raises) no
\* (composite_key, raw_text_hash) pair occurs twice, and when main returns
\* every pair of the input occurs; the row that survives is the first of its
\* pair in input order and the rows keep the input order; in each
\* composite_key group the versao_idx are 0, 1, ..., g-1 in that order.
C8_Dedup ==
    (phase = "return" /\ ret.csv) =>
        LET rows == BuildRows(arg)
            out  == ret.rows
        IN  /\ \A i, j \in DOMAIN out : i # j => PairOf(out[i]) # PairOf(out[j])
            /\ {PairOf(out[i]) : i \in DOMAIN out} \subseteq {PairOf(rows[i]) : i \in DOMAIN rows}
            /\ ret.err = "" =>
                  {PairOf(out[i]) : i \in DOMAIN out} = {PairOf(rows[i]) : i \in DOMAIN rows}
            /\ \A i \in DOMAIN out :
                  LET f == rows[FirstWithPair(rows, out[i])]
                  IN  /\ out[i].objeto_contrato = f.objeto_contrato
                      /\ out[i].valor_contrato = f.valor_contrato
                      /\ out[i].processo_gdf = f.processo_gdf
                      /\ out[i].numero_contrato = f.numero_contrato
            /\ \A i, j \in DOMAIN out :
                  i < j => FirstWithPair(rows, out[i]) < FirstWithPair(rows, out[j])
            /\ \A i \in DOMAIN out :
                  LET g == {j \in DOMAIN out : out[j].composite_key = out[i].composite_key}
                  IN  /\ {out[j].versao_idx : j \in g} = 0..(Cardinality(g) - 1)
                      /\ \A j \in g : j < i => out[j].versao_idx < out[i].versao_idx

C8_Witness ==
    /\ phase = "return"
    /\ arg = <<E1, E2, E3>>
    /\ ret.err = "" /\ ret.csv
    /\ Len(ret.rows) = 2
    /\ ret.rows[1].valor_contrato = <<"R", "$", " ", "1", ",", "5", "0">>
    /\ ret.rows[1].raw_text_hash # ret.rows[2].raw_text_hash
    /\ ret.rows[1].versao_idx = 0 /\ ret.rows[2].versao_idx = 1

\* a valid Brazilian currency text: an optional "R$ ", digits (plain, or in
\* groups of three separated by dots), and an optional comma with decimals;
\* the digits of the text are decimal digits of any script
AllDigits(d, ds) == d # <<>> /\ \A i \in DOMAIN d : d[i] \in ds

Grouped(d, ds) ==
    /\ d # <<>>
    /\ d[1] \in ds
    /\ \A i \in DOMAIN d :
          IF (Len(d) - i + 1) % 4 = 0 THEN d[i] = "." ELSE d[i] \in ds

BRNumber(b) ==
    LET c == FirstIn(b, {","})
    IN  IF c = 0 THEN AllDigits(b, Digits) \/ Grouped(b, Digits)
        ELSE /\ AllDigits(SubSeq(b, 1, c - 1), Digits) \/ Grouped(SubSeq(b, 1, c - 1), Digits)
             /\ AllDigits(Suffix(b, c), Digits)

HasPrefixRS(s) == Len(s) >= 3 /\ SubSeq(s, 1, 3) = <<"R", "$", " ">>

ValidBR(s) == IF HasPrefixRS(s) THEN BRNumber(Suffix(s, 3)) ELSE BRNumber(s)

\* "R$ " + digits 0-9 grouped in threes by dots + "," + exactly two digits
NormalForm(s) ==
    /\ HasPrefixRS(s)
    /\ Len(s) >= 7
    /\ s[Len(s) - 2] = ","
    /\ AllDigits(SubSeq(s, Len(s) - 1, Len(s)), Range(AsciiDigits))
    /\ Grouped(SubSeq(s, 4, Len(s) - 3), Range(AsciiDigits))

\* C9 (stated as claimed): for a valid Brazilian currency text
\* normalize_valor returns a string of the form "R$ " + digits grouped in
\* threes by dots + "," + two digits, and normalize_valor of that string is
\* the same string. (A text of 310 digits is read as the float inf and comes
\* out as "R$ inf", of which normalize_valor is None.)
C9_NormalizeForm ==
    ValidBR(arg) =>
        /\ phase \in {"return", "again"} => (ret[1] # NoneValue /\ NormalForm(ret[1]))
        /\ phase = "again" => ret[2] = ret[1]

\* C10 (stated as claimed): normalize_valor maps both 'R$ 1.000,50' and
\* '1000.50' to 'R$ 1.000,50'.
C10_DotDecimal ==
    (phase = "return" /\ arg \in {ValBR, ValDot}) => ret[1] = ValBR

(***************************************************************************)
(* Claims about the workers and the done set (specification Spec).         *)
(***************************************************************************)
\* the workers that are processing a task: past the skip test, the marker
\* not yet added (suspended in client.post or in asyncio.sleep)
Processing == {w \in Workers : wpc[w] \in {"post", "sleep"}}

\* C11 (stated as claimed): no two workers are at the same time between the
\* skip test and the add of the marker for tasks with the same baseId, also
\* when two rows of the CSV have the same slug.
C11_NoConcurrentSameBase ==
    \A v \in Processing : \A w \in Processing :
        v # w => witem[v].uid_base # witem[w].uid_base

\* the outcomes of a task that was not skipped and that the worker finished:
\* it went on to add the marker
Finished == {"written", "failed_llm", "failed_parse", "failed_write"}

\* the outcomes of a task that was not skipped and whose attempt is over
Attempted == Finished \cup {"raised"}

\* C12 (stated as claimed): when a worker has finished a task that was not skipped, the marker
\* {baseId}_v0 is in the done set, whether lines were written (k or fewer)
\* or the task failed in call_llm or in extract_questions; a task with that
\* baseId taken from the queue in the same step or later in the run is
\* skipped: no request is sent for it, then or later.
C12_MarkerAfterAttempt ==
    [][/\ \A m \in DOMAIN csv_in :
             (run' = run /\ hist'[m].outcome \in Attempted) =>
                 /\ Marker(slug(csv_in[m].objeto_contrato, SlugLen)) \in done_ids'
                 /\ \A n \in DOMAIN csv_in :
                        (/\ slug(csv_in[n].objeto_contrato, SlugLen)
                                = slug(csv_in[m].objeto_contrato, SlugLen)
                         /\ hist[n].deq = 0 /\ hist'[n].deq = 1) =>
                            /\ hist'[n].outcome = "skipped"
                            /\ hist'[n].done = 1
                            /\ hist'[n].req = 0
       /\ \A n \in DOMAIN csv_in :
             (run' = run /\ hist[n].outcome = "skipped") => hist'[n] = hist[n]]_vars

\* an id without what follows its last "_"
CutLast(id) ==
    LET us == {i \in DOMAIN id : id[i] = "_"}
    IN  IF us = {} THEN id
        ELSE SubSeq(id, 1, (CHOOSE i \in us : \A j \in us : j <= i) - 1)

\* the baseId of the QAPair id {baseId}_{vv}_v{i}
BaseOfId(id) == CutLast(CutLast(id))

\* the task markers of the QAPair lines of a log
MarkersOf(f) == {Marker(BaseOfId(id)) : id \in QAIds(f)}

\* C13 (stated as claimed): when prepare_output has read an existing log, the
\* done set is exactly the set of the markers {baseId}_v0 of the ids of the
\* QAPair lines of the file, so that the skip test holds for every task with
\* a line in the file.
C13_DoneSetIsMarkers ==
    (mpc \in {"join", "gather"} /\ \A w \in Workers : wpc[w] = "new") =>
        /\ done_ids = MarkersOf(file)
        /\ \A n \in DOMAIN csv_in :
               (\E id \in QAIds(file) :
                    BaseOfId(id) = slug(csv_in[n].objeto_contrato, SlugLen)) =>
                   Skippable(Task(n, csv_in[n]), done_ids)

\* C14: a step changes the log only by what the write loop wrote for one
\* task whose call_llm returned a completion in which extract_questions found
\* a question; a task that is skipped has sent no request and written
\* nothing, and its skip adds nothing to the done set; a task that fails in
\* call_llm or in extract_questions writes nothing.
C14_FrameOfTask ==
    [][(mpc # "init" /\ mpc' # "init") =>
          /\ file' # file =>
                \E w \in Workers :
                    LET n == witem[w].n
                        r == extract_questions(hist'[n].resp, n_para)
                    IN  /\ wpc[w] = "post"
                        /\ hist[n].done = 0 /\ hist'[n].outcome \in {"written", "failed_write"}
                        /\ r.err = "" /\ r.qs # <<>>
                        /\ file' = file \o WriteLoop(witem[w], r.qs).items
          /\ \A n \in DOMAIN csv_in :
                /\ (hist'[n].outcome = "skipped") =>
                       (hist'[n].req = 0 /\ hist'[n].cnt = 0)
                /\ (hist[n].outcome = "none"
                        /\ hist'[n].outcome \in {"failed_llm", "failed_parse", "raised"}) =>
                       (file' = file /\ hist'[n].cnt = 0)
          /\ done_ids' \subseteq
                done_ids \cup {Marker(witem[w].uid_base) :
                                  w \in {v \in Workers : /\ wpc[v] = "post"
                                                         /\ hist'[witem[v].n].outcome \in Finished
                                                         /\ hist[witem[v].n].done = 0}}]_vars

C14_Witness ==
    /\ mpc = "done" /\ Len(csv_in) = 2 /\ startLen = Len(PrevFile) /\ run = 1
    /\ hist[1].outcome = "skipped" /\ csv_in[1].objeto_contrato = ObjB
    /\ hist[2].outcome = "failed_parse"
    /\ file = PrevFile
    /\ done_ids = LoadedIds(PrevFile) \cup {Marker(slug(csv_in[2].objeto_contrato, SlugLen))}

\* C15: what one task wrote lies in one piece in the log, its lines in the
\* order of the questions of the completion (question index 0, 1, ...), a
\* line cut short by a write error being the last of them: the tasks that
\* wrote occupy disjoint blocks that fill the part of the log appended in
\* the run, whatever the interleaving of the workers.
C15_ContiguousInOrder ==
    mpc # "init" =>
        LET W == {n \in DOMAIN csv_in : hist[n].outcome \in {"written", "failed_write"}}
            Block(n) == hist[n].from .. (hist[n].from + hist[n].cnt - 1)
        IN  /\ \A n \in W :
                  LET qs   == extract_questions(hist[n].resp, n_para).qs
                      base == slug(csv_in[n].objeto_contrato, SlugLen)
                  IN  /\ hist[n].cnt <= Len(qs)
                      /\ hist[n].outcome = "written" => hist[n].cnt = Len(qs)
                      /\ Block(n) \subseteq (startLen + 1)..Len(file)
                      /\ \A i \in 1..hist[n].cnt :
                            LET ln == file[hist[n].from + i - 1]
                            IN  /\ ln.id = Uid(base, csv_in[n].versao_idx, i - 1)
                                /\ ln.kind = "partial" =>
                                       (i = hist[n].cnt /\ hist[n].outcome = "failed_write")
                                /\ ln.kind = "qa" =>
                                       /\ ln.question = qs[i]
                                       /\ ln.objeto = csv_in[n].objeto_contrato
            /\ \A n \in W : \A m \in W : n # m => Block(n) \cap Block(m) = {}
            /\ UNION {Block(n) : n \in W} = (startLen + 1)..Len(file)

C15_Witness ==
    /\ conc = 2 /\ n_para = 2 /\ Len(csv_in) = 2 /\ mpc = "done"
    /\ hist[1].outcome = "written" /\ hist[2].outcome = "written"
    /\ hist[1].cnt = 2 /\ hist[2].cnt = 2
    /\ hist[2].from < hist[1].from
    /\ file[hist[1].from].question = <<"q">> /\ file[hist[1].from + 1].question = <<"r">>

\* the lines one worker alone appends for the tasks ts, in queue order, when
\* the done set is done at the start and every completion is resp
RECURSIVE OneWorkerLines(_, _, _, _)
OneWorkerLines(ts, done, resp, k) ==
    IF ts = <<>> THEN <<>>
    ELSE IF Skippable(Head(ts), done) THEN OneWorkerLines(Tail(ts), done, resp, k)
    ELSE LET r == extract_questions(resp, k)
         IN  (IF r.err = "" THEN WrittenLines(Head(ts), r.qs) ELSE <<>>)
                 \o OneWorkerLines(Tail(ts), done \cup {Marker(Head(ts).uid_base)}, resp, k)

\* how many lines of f carry the id
CountId(f, id) == Cardinality({i \in DOMAIN f : f[i].kind = "qa" /\ f[i].id = id})

\* C19 (stated as claimed): for a given CSV, a given log at the start and a
\* given completion per task (here the same completion for every task, every
\* request answered at the first attempt), the ids appended by a run, counted
\* with their multiplicity, are those that the run with one worker appends,
\* for every number of workers and every interleaving, also when two rows
\* have the same baseId.
C19_ScheduleIndependent ==
    (/\ mpc = "done"
     /\ \A n \in DOMAIN csv_in :
            \/ hist[n].outcome = "skipped"
            \/ (hist[n].outcome = "written" /\ hist[n].resp = Resp2 /\ hist[n].req = 1)) =>
        LET appended == SubSeq(file, startLen + 1, Len(file))
            alone    == OneWorkerLines([n \in DOMAIN csv_in |-> Task(n, csv_in[n])],
                                       LoadedIds(SubSeq(file, 1, startLen)), Resp2, n_para)
        IN  \A id \in QAIds(appended) \cup QAIds(alone) :
                CountId(appended, id) = CountId(alone, id)

(***************************************************************************)
(* Termination of a run (specification FairSpec).                          *)
(***************************************************************************)
\* the stop sentinels in the queue
Sentinels == {i \in DOMAIN queue : queue[i] = None}

\* C18 (stated as claimed): every run that starts ends: main reaches the end
\* of main() with the queue empty, every task done, and every worker out of
\* its loop on a stop sentinel; the stop sentinels are put only when every
\* task is done, one per worker, and each worker takes one.
C18_Termination ==
    /\ (mpc \in {"join", "gather"}) ~> (mpc = "done")
    /\ [](mpc \in {"gather", "done"} =>
            /\ \A i \in DOMAIN queue : queue[i] = None
            /\ \A n \in DOMAIN csv_in : hist[n].done = 1
            /\ Cardinality(Sentinels) + Cardinality({w \in Workers : wpc[w] = "exit"}) = conc
            /\ unfinished = Cardinality(Sentinels))
    /\ [](mpc = "done" =>
            /\ queue = <<>>
            /\ unfinished = 0
            /\ \A w \in Workers : wpc[w] = "exit" /\ witem[w] = None)

(***************************************************************************)
(* Claims about prepare_output (specification SpecPrepare).                *)
(***************************************************************************)
\* C16 (stated as claimed): whatever the lines of the existing log,
\* prepare_output returns: the lines that are not a JSON object with a usable
\* "id" are skipped, the ids of the other lines are all collected, the backup
\* is made and the handle is open for append.
C16_LoadNeverAborts ==
    (phase = "return" /\ arg.ex) =>
        /\ ret.raised = ""
        /\ ret.done_ids = QAIds(arg.f)
        /\ ret.handle = "append"
        /\ ret.file = arg.f
        /\ ret.backups = <<arg.f>>

(***************************************************************************)
(* Claims about the indexing adapter (specification SpecChroma).           *)
(***************************************************************************)
\* C17 (stated as claimed): every run of the adapter that has read the
\* records of the file (at least one) hands all of them, as one batch of texts and
\* metadata, to the vector store, whether ./chroma_db exists or not.
C17_AllHandedEveryRun ==
    (phase \in {"return", "again"} /\ ret.raised = "" /\ ret.texts # <<>>) =>
        /\ ret.handed # Nothing
        /\ ret.handed.texts = ret.texts
        /\ ret.handed.metadatas = ret.metadatas

\* C17 (amended): a run of the adapter in which every line of the file is a
\* JSON object with question, objeto, answer and valor hands all the records
\* as one batch (the text "question objeto answer valor" and the metadata
\* id, question, answer, objeto, valor of each record, in file order) to the
\* vector store when ./chroma_db does not exist; when it exists the store is
\* opened as it is and no record is handed to it.
C17_HandedWhenAbsent ==
    [][(phase' \in {"return", "again"} /\ phase' # phase /\ ret'.raised = "") =>
          IF arg.db = Absent
          THEN /\ ret'.called = "from_texts"
               /\ DOMAIN ret'.handed.texts = DOMAIN arg.jsonl
               /\ DOMAIN ret'.handed.metadatas = DOMAIN arg.jsonl
               /\ \A i \in DOMAIN arg.jsonl :
                     LET e == arg.jsonl[i]
                         m == ret'.handed.metadatas[i]
                     IN  /\ ret'.handed.texts[i] =
                                e["question"] \o <<" ">> \o e["objeto"] \o <<" ">>
                                    \o e["answer"] \o <<" ">> \o e["valor"]
                         /\ m["question"] = e["question"] /\ m["answer"] = e["answer"]
                         /\ m["objeto"] = e["objeto"] /\ m["valor"] = e["valor"]
                         /\ m["id"] = (IF "id" \in DOMAIN e THEN e["id"] ELSE <<>>)
          ELSE /\ ret'.called = "Chroma"
               /\ ret'.handed = Nothing
               /\ arg'.db = arg.db]_vars

C17_Witness ==
    /\ phase = "again" /\ ret.raised = "" /\ ret.called = "Chroma" /\ ret.handed = Nothing
    /\ arg.jsonl = <<Rec1, RecNoId, Rec2>>
    /\ arg.db = OldStore
=============================================================================
